---------------------------- MODULE Spec2Model ----------------------------
(***************************************************************************)
(* A model of the vitrum ray tracer core: the bounding volume hierarchy of *)
(* src/bvh/src/lib.rs, the triangle test of src/geometry/src/face.rs and   *)
(* the linear scan of src/geometry/src/plane.rs.                           *)
(*                                                                         *)
(* Numbers are IEEE-754 binary32 values (the code is generic over          *)
(* V: Float and is used at f32).  A value is a pair <<m, e>>:              *)
(*   finite      m * 2^e, |m| < 2^Precision; canonical form: e = 0 for an  *)
(*               integer value, otherwise e < 0 and m odd                  *)
(*   +0 / -0     <<0, 0>> / <<0, -1>>                                      *)
(*   +inf, -inf  <<1, EInf>>, <<-1, EInf>>                                 *)
(*   NaN         <<0, EInf>>                                               *)
(* Every arithmetic result is rounded to nearest, ties to even.  Exponent  *)
(* overflow and underflow are outside the value ranges used here.          *)
(***************************************************************************)
EXTENDS Integers, Sequences, FiniteSets, TLC

\* f32: 24 significant bits
Precision == 24
\* the exponent code of the non-finite values
EInf == 128

PInf == <<1, EInf>>
NInf == <<-1, EInf>>
NaN == <<0, EInf>>
Zero == <<0, 0>>
NegZero == <<0, -1>>
One == <<1, 0>>

\* an integer as a float value (exact for |n| < 2^Precision)
I(n) == <<n, 0>>

Abs(n) == IF n < 0 THEN -n ELSE n
Sgn(n) == IF n < 0 THEN -1 ELSE IF n > 0 THEN 1 ELSE 0

RECURSIVE BitLen(_)
BitLen(a) == IF a = 0 THEN 0 ELSE 1 + BitLen(a \div 2)

IsNaN(x) == x = NaN
IsInf(x) == x[2] = EInf /\ x[1] # 0
IsFinite(x) == x[2] # EInf
IsZero(x) == x[1] = 0 /\ x[2] # EInf
\* the sign bit: TRUE for negative values, -0 and -inf
Neg(x) == x[1] < 0 \/ x = NegZero
SignedZero(neg) == IF neg THEN NegZero ELSE Zero
SignedInf(neg) == IF neg THEN NInf ELSE PInf

\* the canonical form of the non-zero value m * 2^e
RECURSIVE Canon(_, _)
Canon(m, e) ==
    IF e = 0 THEN <<m, 0>>
    ELSE IF e > 0 THEN <<m * 2^e, 0>>
    ELSE IF m % 2 = 0 THEN Canon(m \div 2, e + 1)
    ELSE <<m, e>>

\* q rounded up or left alone: r is the part shifted out, h half a unit
RoundUp(q, r, h) == IF r > h \/ (r = h /\ q % 2 = 1) THEN q + 1 ELSE q

\* round sg * a * 2^e, where a has b > Precision bits
RoundBits(sg, a, e, b) ==
    Canon(sg * RoundUp(a \div 2^(b - Precision), a % 2^(b - Precision), 2^(b - Precision - 1)),
          e + b - Precision)

\* round the non-zero value m * 2^e to Precision bits, nearest, ties to even
Round(m, e) ==
    IF BitLen(Abs(m)) <= Precision THEN Canon(m, e)
    ELSE RoundBits(Sgn(m), Abs(m), e, BitLen(Abs(m)))

\* the position of the leading bit of a finite non-zero value
Top(x) == x[2] + BitLen(Abs(x[1]))

\* the quotient a / 2^k with a sticky low bit for the part shifted out
Sticky(q, inexact) == IF inexact /\ q % 2 = 0 THEN q + 1 ELSE q

\* shift the magnitude a right by k bits, keeping a sticky low bit
ShiftSticky(a, k) ==
    IF k <= 0 THEN a * 2^(-k)
    ELSE IF k > 30 THEN 1
    ELSE Sticky(a \div 2^k, a % 2^k # 0)

\* -1, 0, 1: the order of the integers a and b
IntOrd(a, b) == IF a < b THEN -1 ELSE IF a > b THEN 1 ELSE 0

\* the order of two finite non-zero values of one sign, brought to exponent e
OrdAt(x, y, e) == IntOrd(x[1] * 2^(x[2] - e), y[1] * 2^(y[2] - e))

\* -1, 0, 1: the order of two values that are not NaN
Ord(x, y) ==
    IF IsZero(x) /\ IsZero(y) THEN 0
    ELSE IF x = y THEN 0
    ELSE IF IsInf(x) THEN x[1]
    ELSE IF IsInf(y) THEN -y[1]
    ELSE IF Sgn(x[1]) # Sgn(y[1]) THEN IntOrd(Sgn(x[1]), Sgn(y[1]))
    ELSE IF x[2] = y[2] THEN IntOrd(x[1], y[1])
    ELSE IF Top(x) # Top(y) THEN Sgn(x[1]) * IntOrd(Top(x), Top(y))
    ELSE OrdAt(x, y, IF x[2] < y[2] THEN x[2] ELSE y[2])

\* the comparison operators of f32: every comparison with NaN is false
FLt(x, y) == ~IsNaN(x) /\ ~IsNaN(y) /\ Ord(x, y) < 0
FGt(x, y) == ~IsNaN(x) /\ ~IsNaN(y) /\ Ord(x, y) > 0
FLe(x, y) == ~IsNaN(x) /\ ~IsNaN(y) /\ Ord(x, y) <= 0
FGe(x, y) == ~IsNaN(x) /\ ~IsNaN(y) /\ Ord(x, y) >= 0
FEq(x, y) == ~IsNaN(x) /\ ~IsNaN(y) /\ Ord(x, y) = 0

FNeg(x) ==
    IF IsNaN(x) THEN NaN
    ELSE IF IsZero(x) THEN SignedZero(~Neg(x))
    ELSE <<-x[1], x[2]>>

\* the rounded value sum * 2^e; an exact zero sum is +0
RoundSum(sum, e) == IF sum = 0 THEN Zero ELSE Round(sum, e)

\* hi + lo with both brought to exponent e
AddAt(hi, lo, e) ==
    RoundSum(Sgn(hi[1]) * ShiftSticky(Abs(hi[1]), e - hi[2])
               + Sgn(lo[1]) * ShiftSticky(Abs(lo[1]), e - lo[2]), e)

\* hi + lo, hi the operand with the higher leading bit: the sum is taken at
\* the lower exponent, or four bits below the precision of hi
AddOrdered(hi, lo, lowest, guard) == AddAt(hi, lo, IF lowest > guard THEN lowest ELSE guard)

\* x + y
FAdd(x, y) ==
    IF IsNaN(x) \/ IsNaN(y) THEN NaN
    ELSE IF IsInf(x) THEN (IF IsInf(y) /\ x # y THEN NaN ELSE x)
    ELSE IF IsInf(y) THEN y
    ELSE IF IsZero(x) /\ IsZero(y) THEN SignedZero(Neg(x) /\ Neg(y))
    ELSE IF IsZero(x) THEN y
    ELSE IF IsZero(y) THEN x
    ELSE IF x[2] = y[2] THEN RoundSum(x[1] + y[1], x[2])
    ELSE IF Top(x) >= Top(y)
    THEN AddOrdered(x, y, IF x[2] < y[2] THEN x[2] ELSE y[2], Top(x) - (Precision + 4))
    ELSE AddOrdered(y, x, IF x[2] < y[2] THEN x[2] ELSE y[2], Top(y) - (Precision + 4))

FSub(x, y) == FAdd(x, FNeg(y))

\* x * y
FMul(x, y) ==
    IF IsNaN(x) \/ IsNaN(y) THEN NaN
    ELSE IF IsInf(x) \/ IsInf(y) THEN
        (IF IsZero(x) \/ IsZero(y) THEN NaN ELSE SignedInf(Neg(x) # Neg(y)))
    ELSE IF IsZero(x) \/ IsZero(y) THEN SignedZero(Neg(x) # Neg(y))
    ELSE Round(x[1] * y[1], x[2] + y[2])

\* k more quotient bits of r / d by long division: <<quotient, remainder>>
RECURSIVE LongDiv(_, _, _, _)
LongDiv(r, d, k, q) ==
    IF k = 0 THEN <<q, r>>
    ELSE IF 2 * r >= d THEN LongDiv(2 * r - d, d, k - 1, 2 * q + 1)
    ELSE LongDiv(2 * r, d, k - 1, 2 * q)

\* the quotient qr[1] with a sticky bit for the remainder qr[2], times 2^e
RoundQuotient(sg, qr, e) == Round(sg * (2 * qr[1] + (IF qr[2] # 0 THEN 1 ELSE 0)), e - 1)

\* the inexact quotient sg * n / d * 2^e, taken to k bits behind the point
DivBits(sg, n, d, e, k) == RoundQuotient(sg, LongDiv(n % d, d, k, n \div d), e - k)

\* the quotient sg * n / d * 2^e of two magnitudes
DivFinite(sg, n, d, e) ==
    IF n % d = 0 THEN Round(sg * (n \div d), e)
    ELSE DivBits(sg, n, d, e,
                 IF Precision + 2 + BitLen(d) > BitLen(n)
                 THEN Precision + 2 + BitLen(d) - BitLen(n) ELSE 0)

\* x / y
FDiv(x, y) ==
    IF IsNaN(x) \/ IsNaN(y) THEN NaN
    ELSE IF IsInf(x) THEN (IF IsInf(y) THEN NaN ELSE SignedInf(Neg(x) # Neg(y)))
    ELSE IF IsInf(y) THEN SignedZero(Neg(x) # Neg(y))
    ELSE IF IsZero(y) THEN (IF IsZero(x) THEN NaN ELSE SignedInf(Neg(x) # Neg(y)))
    ELSE IF IsZero(x) THEN SignedZero(Neg(x) # Neg(y))
    ELSE DivFinite(Sgn(x[1]) * Sgn(y[1]), Abs(x[1]), Abs(y[1]), x[2] - y[2])

\* f32::max and f32::min: a NaN operand is ignored
FMax(x, y) == IF IsNaN(x) THEN y ELSE IF IsNaN(y) THEN x ELSE IF FLt(x, y) THEN y ELSE x
FMin(x, y) == IF IsNaN(x) THEN y ELSE IF IsNaN(y) THEN x ELSE IF FLt(y, x) THEN y ELSE x

----------------------------------------------------------------------------
(* Vector3D and Ray *)

V3(x, y, z) == [x |-> x, y |-> y, z |-> z]
\* Vector3D::new over integer coordinates
Vec(x, y, z) == V3(I(x), I(y), I(z))

VAdd(a, b) == V3(FAdd(a.x, b.x), FAdd(a.y, b.y), FAdd(a.z, b.z))
VSub(a, b) == V3(FSub(a.x, b.x), FSub(a.y, b.y), FSub(a.z, b.z))
\* the cross product, a ^ b
Cross(a, b) ==
    V3(FSub(FMul(a.y, b.z), FMul(a.z, b.y)),
       FSub(FMul(a.z, b.x), FMul(a.x, b.z)),
       FSub(FMul(a.x, b.y), FMul(a.y, b.x)))
\* the dot product, a * b
Dot(a, b) == FAdd(FAdd(FMul(a.x, b.x), FMul(a.y, b.y)), FMul(a.z, b.z))
\* vector * scalar
VScale(v, k) == V3(FMul(k, v.x), FMul(k, v.y), FMul(k, v.z))
VDiv(v, k) == V3(FDiv(v.x, k), FDiv(v.y, k), FDiv(v.z, k))
VMin(a, b) == V3(FMin(a.x, b.x), FMin(a.y, b.y), FMin(a.z, b.z))
VMax(a, b) == V3(FMax(a.x, b.x), FMax(a.y, b.y), FMax(a.z, b.z))
\* PartialEq for Vector3D
VEq(a, b) == FEq(a.x, b.x) /\ FEq(a.y, b.y) /\ FEq(a.z, b.z)
\* component-wise a <= b
VLe(a, b) == FLe(a.x, b.x) /\ FLe(a.y, b.y) /\ FLe(a.z, b.z)

Ray(origin, direction) == [origin |-> origin, direction |-> direction]
\* Ray::at
at(ray, t) == VAdd(ray.origin, VScale(ray.direction, t))

\* Option<T>: None is the empty sequence, Some(c) is <<c>>
None == <<>>
Some(c) == <<c>>

----------------------------------------------------------------------------
(* Face: src/geometry/src/face.rs.  The optional texture coordinates are    *)
(* carried unchanged by every operation and are left out.                   *)

FaceNew(a, b, c, face_normal, a_normal, b_normal, c_normal) ==
    [face_normal |-> face_normal, a |-> a, b |-> b, c |-> c,
     a_normal |-> a_normal, b_normal |-> b_normal, c_normal |-> c_normal]

from_points_with_face(normal, a, b, c) == FaceNew(a, b, c, normal, normal, normal, normal)

\* T::from(1e-5) at f32: 2748779 * 2^-38
epsilon == <<2748779, -38>>

\* the determinant of the matrix whose columns are the vertices
Det(f) ==
    FAdd(FSub(FMul(f.a.x, FSub(FMul(f.b.y, f.c.z), FMul(f.c.y, f.b.z))),
              FMul(f.b.x, FSub(FMul(f.a.y, f.c.z), FMul(f.c.y, f.a.z)))),
         FMul(f.c.x, FSub(FMul(f.a.y, f.b.z), FMul(f.b.y, f.a.z))))

\* the rows of the inverse of that matrix
x_fac(f, det) ==
    V3(FDiv(FSub(FMul(f.b.y, f.c.z), FMul(f.c.y, f.b.z)), det),
       FDiv(FNeg(FSub(FMul(f.b.x, f.c.z), FMul(f.c.x, f.b.z))), det),
       FDiv(FSub(FMul(f.b.x, f.c.y), FMul(f.c.x, f.b.y)), det))
y_fac(f, det) ==
    V3(FDiv(FNeg(FSub(FMul(f.a.y, f.c.z), FMul(f.c.y, f.a.z))), det),
       FDiv(FSub(FMul(f.a.x, f.c.z), FMul(f.c.x, f.a.z)), det),
       FDiv(FNeg(FSub(FMul(f.a.x, f.c.y), FMul(f.c.x, f.a.y))), det))
z_fac(f, det) ==
    V3(FDiv(FSub(FMul(f.a.y, f.b.z), FMul(f.b.y, f.a.z)), det),
       FDiv(FNeg(FSub(FMul(f.a.x, f.b.z), FMul(f.b.x, f.a.z))), det),
       FDiv(FSub(FMul(f.a.x, f.b.y), FMul(f.b.x, f.a.y)), det))

\* the barycentric coordinates of the point
bary_coords(f, point, det) ==
    V3(Dot(x_fac(f, det), point), Dot(y_fac(f, det), point), Dot(z_fac(f, det), point))

\* the vertex normals weighted by the barycentric coordinates
Interpolate(f, bary) ==
    VAdd(VAdd(VScale(f.a_normal, bary.x), VScale(f.b_normal, bary.y)),
         VScale(f.c_normal, bary.z))

\* Face::normal_at
normal_at(f, point) == Interpolate(f, bary_coords(f, point, Det(f)))

\* the edge test taken with the normal of the winding, cross(b - a, c - a)
MissedEdge_wound(f, p, q, hit) ==
    FLt(Dot(Cross(VSub(f.b, f.a), VSub(f.c, f.a)), Cross(VSub(q, p), VSub(hit, p))), Zero)

\* TRUE when the point is on the right side of the edge from p to q
MissedEdge(f, p, q, hit) == FLt(Dot(f.face_normal, Cross(VSub(q, p), VSub(hit, p))), Zero)

\* collision_face with the test turned round
collision_face_flipped(ray_norm_dot) ==
    IF FLt(ray_norm_dot, FNeg(epsilon)) THEN "BackFace" ELSE "FrontFace"

collision_face(ray_norm_dot) ==
    IF FGt(ray_norm_dot, FNeg(epsilon)) THEN "BackFace" ELSE "FrontFace"

\* Face::hits from the inside test on: hit is the point on the plane
HitsInside(f, ray_norm_dot, t, hit) ==
    IF MissedEdge(f, f.a, f.b, hit) THEN None
    ELSE IF MissedEdge(f, f.b, f.c, hit) THEN None
    ELSE IF MissedEdge(f, f.c, f.a, hit) THEN None
    ELSE Some([normal |-> normal_at(f, hit), contact_point |-> hit,
               distance |-> t, direction |-> collision_face(ray_norm_dot)])

\* Face::hits that gives up on a ray facing the back of the triangle
HitsBehind_culled(f, ray, ray_norm_dot, t) ==
    IF FLt(t, Zero) \/ FGt(ray_norm_dot, FNeg(epsilon)) THEN None
    ELSE HitsInside(f, ray_norm_dot, t, VAdd(ray.origin, VScale(ray.direction, t)))

\* Face::hits from the test of t on
HitsBehind(f, ray, ray_norm_dot, t) ==
    IF FLt(t, Zero) THEN None
    ELSE HitsInside(f, ray_norm_dot, t, VAdd(ray.origin, VScale(ray.direction, t)))

\* Face::hits from the plane intersection on
HitsPlane(f, ray, ray_norm_dot) ==
    HitsBehind(f, ray, ray_norm_dot,
               FDiv(FSub(Dot(f.face_normal, f.a), Dot(f.face_normal, ray.origin)), ray_norm_dot))

\* Face::hits
Face_hits(f, ray) == HitsPlane(f, ray, Dot(ray.direction, f.face_normal))

Face_min_extents(f) == VMin(VMin(f.a, f.b), f.c)
Face_max_extents(f) == VMax(VMax(f.a, f.b), f.c)
Face_translate(f, t) ==
    FaceNew(VAdd(f.a, t), VAdd(f.b, t), VAdd(f.c, t),
            f.face_normal, f.a_normal, f.b_normal, f.c_normal)

----------------------------------------------------------------------------
(* impl Plane for Vec<T>: src/geometry/src/plane.rs *)

\* the match in the loop of hits: h is p.hits(ray)
Nearer(h, plane) ==
    IF h = None THEN plane
    ELSE IF plane = None THEN h
    ELSE IF FLt(h[1].distance, plane[1].distance) THEN h
    ELSE plane

RECURSIVE Vec_hits_from(_, _, _, _)
Vec_hits_from(v, ray, i, plane) ==
    IF i > Len(v) THEN plane
    ELSE Vec_hits_from(v, ray, i + 1, Nearer(Face_hits(v[i], ray), plane))

Vec_hits(v, ray) == Vec_hits_from(v, ray, 1, None)

RECURSIVE Vec_min_from(_, _, _)
Vec_min_from(v, i, min) ==
    IF i > Len(v) THEN min ELSE Vec_min_from(v, i + 1, VMin(min, Face_min_extents(v[i])))
Vec_min_extents(v) == Vec_min_from(v, 1, V3(PInf, PInf, PInf))

RECURSIVE Vec_max_from(_, _, _)
Vec_max_from(v, i, max) ==
    IF i > Len(v) THEN max ELSE Vec_max_from(v, i + 1, VMax(max, Face_max_extents(v[i])))
Vec_max_extents(v) == Vec_max_from(v, 1, V3(NInf, NInf, NInf))

Vec_translate(v, t) == [i \in 1..Len(v) |-> Face_translate(v[i], t)]

----------------------------------------------------------------------------
(* BoundingVolumeHierarchy: src/bvh/src/lib.rs *)

empty == [kind |-> "Empty"]
leaf(face) == [kind |-> "Child", face |-> face]

\* min_extents with the origin for the box of Empty
min_extents_origin(self) ==
    CASE self.kind = "Empty" -> V3(Zero, Zero, Zero)
      [] self.kind = "Child" -> Face_min_extents(self.face)
      [] self.kind = "Node" -> self.min

min_extents(self) ==
    CASE self.kind = "Empty" -> V3(PInf, PInf, PInf)
      [] self.kind = "Child" -> Face_min_extents(self.face)
      [] self.kind = "Node" -> self.min

max_extents(self) ==
    CASE self.kind = "Empty" -> V3(NInf, NInf, NInf)
      [] self.kind = "Child" -> Face_max_extents(self.face)
      [] self.kind = "Node" -> self.max

node(left, right) ==
    [kind |-> "Node",
     min |-> VMin(min_extents(left), min_extents(right)),
     max |-> VMax(max_extents(left), max_extents(right)),
     left |-> left, right |-> right]

RECURSIVE size(_)
size(self) ==
    CASE self.kind = "Empty" -> 0
      [] self.kind = "Child" -> 1
      [] self.kind = "Node" -> size(self.left) + size(self.right)

RECURSIVE translate(_, _)
\* translate that moves the children and leaves a Node's own box where it was
translate_stale(self, t) ==
    CASE self.kind = "Empty" -> empty
      [] self.kind = "Child" -> [kind |-> "Child", face |-> Face_translate(self.face, t)]
      [] self.kind = "Node" ->
            [kind |-> "Node", min |-> self.min, max |-> self.max,
             left |-> translate(self.left, t), right |-> translate(self.right, t)]

\* translate that computes a Node's upper corner from its lower corner
translate_from_min(self, t) ==
    CASE self.kind = "Empty" -> empty
      [] self.kind = "Child" -> [kind |-> "Child", face |-> Face_translate(self.face, t)]
      [] self.kind = "Node" ->
            [kind |-> "Node", min |-> VAdd(self.min, t), max |-> VAdd(self.min, t),
             left |-> translate(self.left, t), right |-> translate(self.right, t)]

translate(self, t) ==
    CASE self.kind = "Empty" -> empty
      [] self.kind = "Child" -> [kind |-> "Child", face |-> Face_translate(self.face, t)]
      [] self.kind = "Node" ->
            [kind |-> "Node", min |-> VAdd(self.min, t), max |-> VAdd(self.max, t),
             left |-> translate(self.left, t), right |-> translate(self.right, t)]

\* the coordinate of a vector on axis 0, 1, 2
Coord(v, axis) == IF axis = 0 THEN v.x ELSE IF axis = 1 THEN v.y ELSE v.z

\* the comparison closure of new_helper: a sorts before b
helper(a, b, axis) == FLt(Coord(Face_min_extents(a), axis), Coord(Face_min_extents(b), axis))

\* insert f into the sorted list s behind every element that does not sort after it
RECURSIVE Insert(_, _, _)
Insert(s, f, axis) ==
    IF s = <<>> THEN <<f>>
    ELSE IF helper(f, s[Len(s)], axis) THEN Append(Insert(SubSeq(s, 1, Len(s) - 1), f, axis), s[Len(s)])
    ELSE Append(s, f)

\* Vec::sort_by(helper): a stable sort
RECURSIVE sort_by(_, _)
sort_by(s, axis) ==
    IF s = <<>> THEN <<>>
    ELSE Insert(sort_by(SubSeq(s, 1, Len(s) - 1), axis), s[Len(s)], axis)

RECURSIVE new_helper(_, _)
\* new_helper that takes a list of two for small enough to construct directly
new_helper_pair(fs, axis) ==
    IF Len(fs) = 0 THEN empty
    ELSE IF Len(fs) <= 2 THEN leaf(fs[1])
    ELSE node(new_helper(sort_by(SubSeq(fs, 1, Len(fs) \div 2), axis), (axis + 1) % 3),
              new_helper(sort_by(SubSeq(fs, Len(fs) \div 2 + 1, Len(fs)), axis), (axis + 1) % 3))

\* new_helper that leaves the element at the midpoint out of both halves
new_helper_skip(fs, axis) ==
    IF Len(fs) = 0 THEN empty
    ELSE IF Len(fs) = 1 THEN leaf(fs[1])
    ELSE node(new_helper(sort_by(SubSeq(fs, 1, Len(fs) \div 2), axis), (axis + 1) % 3),
              new_helper(sort_by(SubSeq(fs, Len(fs) \div 2 + 2, Len(fs)), axis), (axis + 1) % 3))

\* new_helper that splits at the midpoint rounded up
new_helper_ceil(fs, axis) ==
    IF Len(fs) = 0 THEN empty
    ELSE IF Len(fs) = 1 THEN leaf(fs[1])
    ELSE node(new_helper(sort_by(SubSeq(fs, 1, (Len(fs) + 1) \div 2), axis), (axis + 1) % 3),
              new_helper(sort_by(SubSeq(fs, (Len(fs) + 1) \div 2 + 1, Len(fs)), axis), (axis + 1) % 3))

new_helper(fs, axis) ==
    IF Len(fs) = 0 THEN empty
    ELSE IF Len(fs) = 1 THEN leaf(fs[1])
    ELSE node(new_helper(sort_by(SubSeq(fs, 1, Len(fs) \div 2), axis), (axis + 1) % 3),
              new_helper(sort_by(SubSeq(fs, Len(fs) \div 2 + 1, Len(fs)), axis), (axis + 1) % 3))

\* new without the cases of the empty and the one-element list
new_split(fs) ==
    node(new_helper(sort_by(SubSeq(fs, 1, Len(fs) \div 2), 0), 1),
         new_helper(sort_by(SubSeq(fs, Len(fs) \div 2 + 1, Len(fs)), 0), 1))

new(fs) == new_helper(fs, 0)

\* the two slab distances in order
Ordered(t_min, t_max) == IF FLt(t_min, t_max) THEN <<t_min, t_max>> ELSE <<t_max, t_min>>

\* collide_slab without the exchange of the two distances
collide_slab_unordered(t, s, min, max) == <<FMul(FSub(min, s), t), FMul(FSub(max, s), t)>>

collide_slab(t, s, min, max) == Ordered(FMul(FSub(min, s), t), FMul(FSub(max, s), t))

\* the end of collide_box with a box that ends at the origin taken for a hit
BoxResult_strict(min_t, max_t) ==
    IF ~FEq(min_t, PInf) /\ FGe(max_t, min_t) THEN
        (IF FLt(max_t, Zero) THEN <<FALSE, PInf>>
         ELSE IF FGe(min_t, Zero) THEN <<TRUE, min_t>>
         ELSE <<TRUE, Zero>>)
    ELSE <<FALSE, PInf>>

\* the end of collide_box without the test of min_t against +inf and max_t
BoxResult_unguarded(min_t, max_t) ==
    IF FLe(max_t, Zero) THEN <<FALSE, PInf>>
    ELSE IF FGe(min_t, Zero) THEN <<TRUE, min_t>>
    ELSE <<TRUE, Zero>>

\* the end of collide_box, after the z slab
BoxResult(min_t, max_t) ==
    IF ~FEq(min_t, PInf) /\ FGe(max_t, min_t) THEN
        (IF FLe(max_t, Zero) THEN <<FALSE, PInf>>
         ELSE IF FGe(min_t, Zero) THEN <<TRUE, min_t>>
         ELSE <<TRUE, Zero>>)
    ELSE <<FALSE, PInf>>

\* collide_box from the z slab on; lu is the z slab
BoxZ(min_t, max_t, lu) == BoxResult(FMax(min_t, lu[1]), FMin(max_t, lu[2]))

\* collide_box after the y slab
BoxAfterY(self, t, s, min_t, max_t) ==
    IF FEq(min_t, PInf) \/ FGt(min_t, max_t) THEN <<FALSE, PInf>>
    ELSE BoxZ(min_t, max_t, collide_slab(t.z, s.z, self.min.z, self.max.z))

\* collide_box from the y slab on; lu is the y slab
BoxY(self, t, s, min_t, max_t, lu) ==
    BoxAfterY(self, t, s, FMax(min_t, lu[1]), FMin(max_t, lu[2]))

\* collide_box after the x slab
BoxAfterX(self, t, s, min_t, max_t) ==
    IF FEq(min_t, PInf) \/ FGt(min_t, max_t) THEN <<FALSE, PInf>>
    ELSE BoxY(self, t, s, min_t, max_t, collide_slab(t.y, s.y, self.min.y, self.max.y))

\* collide_box from the x slab on; lu is the x slab
BoxX(self, t, s, lu) == BoxAfterX(self, t, s, FMax(NInf, lu[1]), FMin(PInf, lu[2]))

\* collide_box on a Node: <<hit, distance>>
collide_box(self, t, s) == BoxX(self, t, s, collide_slab(t.x, s.x, self.min.x, self.max.x))

\* compute_t_s: <<t, s>>, the inverse direction and the origin
compute_t_s(ray) ==
    <<V3(FDiv(One, Dot(Vec(1, 0, 0), ray.direction)),
         FDiv(One, Dot(Vec(0, 1, 0), ray.direction)),
         FDiv(One, Dot(Vec(0, 0, 1), ray.direction))),
      V3(Dot(Vec(1, 0, 0), ray.origin), Dot(Vec(0, 1, 0), ray.origin),
         Dot(Vec(0, 0, 1), ray.origin))>>

\* the traversal's local state: best distance, best hit, queue, and whether
\* an abort (panic) was hit
Local(min_t, result, heap) == [min_t |-> min_t, result |-> result, heap |-> heap]

\* collide_child on a Child that queues the leaf instead of testing it
ChildHit_queued(hit, st) ==
    Local(st.min_t, st.result,
          Append(st.heap, [data |-> [kind |-> "Child", hit |-> hit], cost |-> Zero]))

\* collide_child on a Child: hit is p.hits(ray)
ChildHit(hit, st) ==
    IF hit # None /\ FLt(hit[1].distance, st.min_t)
    THEN Local(hit[1].distance, hit, st.heap)
    ELSE st

\* collide_child on a Node that pushes the entry twice
ChildPush_twice(self, b, st) ==
    IF b[1] /\ FLt(b[2], st.min_t)
    THEN Local(st.min_t, st.result,
               Append(Append(st.heap, [data |-> self, cost |-> b[2]]), [data |-> self, cost |-> b[2]]))
    ELSE st

\* collide_child on a Node: b is self.collide_box(t, s)
ChildPush(self, b, st) ==
    IF b[1] /\ FLt(b[2], st.min_t)
    THEN Local(st.min_t, st.result, Append(st.heap, [data |-> self, cost |-> b[2]]))
    ELSE st

\* collide_child: the local state after the call
collide_child(self, ray, t, s, st) ==
    CASE self.kind = "Empty" -> st
      [] self.kind = "Child" -> ChildHit(Face_hits(self.face, ray), st)
      [] self.kind = "Node" -> ChildPush(self, collide_box(self, t, s), st)

---------------------------------------------------------------------------------------------------------------------------------------------------
(* The inputs *)

\* the longest primitive list given to new before a traversal
MaxFaces == 3
\* the longest primitive list given to new when only the build is observed
MaxBuild == 5
\* the longest primitive list given to new before a tree is edited by hand
MaxTreeFaces == 2
\* the number of node / translate calls made on a hand-assembled tree
MaxEdits == 2
\* the largest direction component and coordinate given to collide_slab
MaxDir == 7
MaxCoord == 3

Half == <<1, -1>>

\* triangles in the planes z = 1, z = 3, z = 2 and x = 1, each wound
\* counter-clockwise about its stored normal
F1 == from_points_with_face(Vec(0, 0, 1), Vec(0, 0, 1), Vec(2, 0, 1), Vec(0, 2, 1))
F2 == from_points_with_face(Vec(0, 0, 1), Vec(0, 0, 3), Vec(2, 0, 3), Vec(0, 2, 3))
F3 == from_points_with_face(Vec(0, 0, 1), Vec(-3, 0, 2), Vec(-1, 0, 2), Vec(-3, 2, 2))
F4 == from_points_with_face(Vec(1, 0, 0), Vec(1, 0, 0), Vec(1, 2, 0), Vec(1, 0, 2))
\* the triangle of the facing scenario
F0 == from_points_with_face(Vec(0, 0, 1), Vec(-1, 0, 0), Vec(1, 0, 0), Vec(0, 1, 0))
FacePool == {F1, F2, F3, F4}
BuildPool == {F1, F3, F4}
TreePool == {F1, F3}

\* every list of at most n faces of the pool
Lists(pool, n) == UNION {[1..k -> pool] : k \in 0..n}

RayPool ==
    { Ray(V3(Half, Half, Zero), Vec(0, 0, 1)),
      Ray(Vec(0, 1, 0), Vec(0, 0, 1)),
      Ray(V3(Half, Half, I(5)), Vec(0, 0, -1)),
      Ray(Vec(-2, -2, -2), Vec(1, 1, 1)),
      Ray(Vec(-1, 1, 1), Vec(1, 0, 0)),
      Ray(V3(Half, Half, I(2)), Vec(0, 0, 1)),
      Ray(Vec(5, 5, 0), Vec(0, 0, 1)),
      Ray(V3(I(-4), Half, I(2)), V3(I(1), Zero, NegZero)) }

\* the translations applied to a tree; the large one makes sums round
Translations == {Vec(1, -2, 0), Vec(16777216, 0, 3)}

\* the direction components: integers and the two zeros
DirValues == {I(k) : k \in -MaxDir..MaxDir} \cup {NegZero}
CoordValues == {I(k) : k \in -MaxCoord..MaxCoord}

\* collide_slab on the x axis: a ray through (s, 0, 0) whose direction has x
\* component d, and the slab [min, max].  The y and z components are
\* negative, so that Vector3D::x() * direction keeps the sign of a zero d.
SlabArgs ==
    {a \in {[ray |-> Ray(V3(s, Zero, Zero), V3(d, I(-1), I(-1))), min |-> lo, max |-> hi] :
                d \in DirValues, s \in CoordValues, lo \in CoordValues, hi \in CoordValues} :
        FLe(a.min, a.max)}

\* the boxes of collide_box: nodes over two leaves
BoxPool == {node(leaf(F1), leaf(F1)), node(leaf(F1), leaf(F2)),
            node(leaf(F3), leaf(F2)), node(leaf(F4), leaf(F1))}
RayCoords == {I(-1), I(0), I(1), I(3)}
RayDirs == {I(-1), Zero, NegZero, I(1)}
BoxArgs ==
    {[box |-> b, ray |-> Ray(V3(ox, oy, oz), V3(dx, dy, dz))] :
        b \in BoxPool, ox \in RayCoords, oy \in {I(0), I(1)}, oz \in RayCoords,
        dx \in RayDirs, dy \in RayDirs, dz \in RayDirs}

\* the rays of the facing scenario and rays along z through a grid
\* and two rays nearly parallel to the planes z = c, with direction components
\* -2^-17 and -2^-16 on either side of -epsilon
FaceRays ==
    RayPool \cup
    {Ray(V3(x, y, I(z)), Vec(0, 0, d)) :
        x \in {I(-1), I(0), I(1)}, y \in {I(0), Half, I(1)}, z \in {-10, 10}, d \in {-1, 1}}
    \cup {Ray(V3(Half, Half, I(4)), V3(Zero, Zero, dz)) : dz \in {<<-1, -17>>, <<-1, -16>>}}
\* F1 with its stored normal turned against its winding
F1Turned == from_points_with_face(Vec(0, 0, -1), Vec(0, 0, 1), Vec(2, 0, 1), Vec(0, 2, 1))
FaceArgs == {[face |-> f, ray |-> r] : f \in FacePool \cup {F0, F1Turned}, r \in FaceRays}

----------------------------------------------------------------------------
(* The state *)

VARIABLES
    faces,      \* the primitive list the tree was built from
    tree,       \* the BoundingVolumeHierarchy
    spare,      \* a second tree, to be joined to the first by node
    edits,      \* the number of node and translate calls made
    ray,        \* the ray of the running hits call
    pc,         \* "idle", "loop" (inside collide's while), "done", "panic"
    heap,       \* collide's BinaryHeap of Cost entries, in push order
    min_t,      \* collide's best distance
    result,     \* collide's best hit; the value returned
    popped,     \* the entries heap.pop() has returned in this call, in order
    calls,      \* the locals of the hits calls that run side by side on the tree
    arg,        \* the arguments of a function called on its own
    ret         \* <<>> before that call, <<value>> after it

vars == <<faces, tree, spare, edits, ray, pc, heap, min_t, result, popped, calls, arg, ret>>
treeVars == <<faces, tree, spare, edits>>
travVars == <<ray, pc, heap, min_t, result, popped, calls>>
callVars == <<arg, ret>>

Start ==
    /\ faces = <<>>
    /\ tree = empty
    /\ spare = empty
    /\ edits = 0
    /\ ray = None
    /\ pc = "idle"
    /\ heap = <<>>
    /\ min_t = PInf
    /\ result = None
    /\ popped = <<>>
    /\ calls = <<>>

Init ==
    /\ Start
    /\ arg = None
    /\ ret = None

\* BoundingVolumeHierarchy::new: the tree is built once, from one list
NewTree(fs) ==
    /\ pc = "idle"
    /\ faces = <<>>
    /\ tree = empty
    /\ faces' = fs
    /\ tree' = new(fs)
    /\ UNCHANGED <<spare, edits, travVars, callVars>>

\* pop under an order on Cost that is not reversed: an entry of greatest cost
PopIndexes_max(h) == {i \in 1..Len(h) : \A j \in 1..Len(h) : ~FGt(h[j].cost, h[i].cost)}

\* the indexes of the entries BinaryHeap::pop may return: Cost orders by
\* reversed cost, so the greatest entry is one of least cost
PopIndexes(h) == {i \in 1..Len(h) : \A j \in 1..Len(h) : ~FLt(h[j].cost, h[i].cost)}

Remove(h, i) == SubSeq(h, 1, i - 1) \o SubSeq(h, i + 1, Len(h))

\* the queue collide starts from: b is self.collide_box(t, s)
Seed(self, b) == IF b[1] THEN <<[data |-> self, cost |-> b[2]]>> ELSE <<>>

\* the two collide_child calls of one iteration, on the left then the right child
Expand(n, r, t, s, st) == collide_child(n.right, r, t, s, collide_child(n.left, r, t, s, st))

\* the locals of collide after one iteration
Store(st) == heap' = st.heap /\ min_t' = st.min_t /\ result' = st.result

\* Plane::hits of the tree, up to the first test of collide's while loop
Hits(r) ==
    /\ pc = "idle"
    /\ ray' = r
    /\ UNCHANGED <<treeVars, callVars, popped, calls>>
    /\ CASE tree.kind = "Empty" ->
                /\ result' = None
                /\ pc' = "done"
                /\ UNCHANGED <<heap, min_t>>
         [] tree.kind = "Child" ->
                /\ result' = Face_hits(tree.face, r)
                /\ pc' = "done"
                /\ UNCHANGED <<heap, min_t>>
         [] tree.kind = "Node" ->
                /\ heap' = Seed(tree, collide_box(tree, compute_t_s(r)[1], compute_t_s(r)[2]))
                /\ min_t' = PInf
                /\ result' = None
                /\ pc' = "loop"

\* one iteration of collide's while loop, or its exit
Loop ==
    /\ pc = "loop"
    /\ UNCHANGED <<treeVars, callVars, ray, calls>>
    /\ IF heap = <<>>
       THEN /\ pc' = "done"
            /\ UNCHANGED <<heap, min_t, result, popped>>
       ELSE \E i \in PopIndexes(heap) :
            /\ popped' = Append(popped, heap[i])
            /\ IF FGt(heap[i].cost, min_t)
               THEN /\ pc' = "done"
                    /\ heap' = Remove(heap, i)
                    /\ UNCHANGED <<min_t, result>>
               ELSE IF heap[i].data.kind = "Node"
               THEN /\ Store(Expand(heap[i].data, ray, compute_t_s(ray)[1], compute_t_s(ray)[2],
                                    Local(min_t, result, Remove(heap, i))))
                    /\ pc' = "loop"
               ELSE /\ pc' = "panic"
                    /\ heap' = Remove(heap, i)
                    /\ UNCHANGED <<min_t, result>>

\* the caller takes the result; the traversal's locals are dropped
Return ==
    /\ pc = "done"
    /\ pc' = "idle"
    /\ ray' = None
    /\ heap' = <<>>
    /\ min_t' = PInf
    /\ result' = None
    /\ popped' = <<>>
    /\ UNCHANGED <<treeVars, callVars, calls>>

Next ==
    \/ \E fs \in Lists(FacePool, MaxFaces) : NewTree(fs)
    \/ \E r \in RayPool : Hits(r)
    \/ Loop
    \/ Return

\* build a tree and query it
Spec == Init /\ [][Next]_vars

\* the while loop can take a step exactly when the call is inside it: with
\* an empty queue it leaves, with entries in the queue it pops one
LoopEnabled == pc = "loop"

\* a call of hits that has entered the while loop goes on running: weak
\* fairness of Loop, with ENABLED <<Loop>>_vars written as LoopEnabled
LoopFair == []<>(~LoopEnabled) \/ []<><<Loop>>_vars

SpecLive == Spec /\ LoopFair

----------------------------------------------------------------------------
(* Building only *)

NextBuild == \E fs \in Lists(BuildPool, MaxBuild) : NewTree(fs)

SpecBuild == Init /\ [][NextBuild]_vars

----------------------------------------------------------------------------
(* Trees assembled through new, leaf, empty, node and translate *)

\* BoundingVolumeHierarchy::leaf
MakeLeaf(f) ==
    /\ spare' = leaf(f)
    /\ UNCHANGED <<faces, tree, edits, travVars, callVars>>

\* BoundingVolumeHierarchy::empty
MakeEmpty ==
    /\ spare' = empty
    /\ UNCHANGED <<faces, tree, edits, travVars, callVars>>

\* BoundingVolumeHierarchy::node, the tree on the left or on the right
MakeNode(treeLeft) ==
    /\ edits < MaxEdits
    /\ edits' = edits + 1
    /\ tree' = IF treeLeft THEN node(tree, spare) ELSE node(spare, tree)
    /\ UNCHANGED <<faces, spare, travVars, callVars>>

\* Plane::translate of the tree
Translate(t) ==
    /\ edits < MaxEdits
    /\ edits' = edits + 1
    /\ tree' = translate(tree, t)
    /\ UNCHANGED <<faces, spare, travVars, callVars>>

NextTree ==
    \/ \E fs \in Lists(TreePool, MaxTreeFaces) : NewTree(fs)
    \/ \E f \in TreePool : MakeLeaf(f)
    \/ MakeEmpty
    \/ \E b \in BOOLEAN : MakeNode(b)
    \/ \E t \in Translations : Translate(t)

SpecTree == Init /\ [][NextTree]_vars

----------------------------------------------------------------------------
(* collide_slab, collide_box and Face::hits called on their own *)

InitSlab == Start /\ arg \in SlabArgs /\ ret = None
InitBox == Start /\ arg \in BoxArgs /\ ret = None
InitFace == Start /\ arg \in FaceArgs /\ ret = None

\* collide_slab on the x axis, with t and s as compute_t_s gives them
CallSlab ==
    /\ ret = None
    /\ LET ts == compute_t_s(arg.ray)
       IN  ret' = <<collide_slab(ts[1].x, ts[2].x, arg.min, arg.max)>>
    /\ UNCHANGED <<treeVars, travVars, arg>>

CallBox ==
    /\ ret = None
    /\ LET ts == compute_t_s(arg.ray)
       IN  ret' = <<collide_box(arg.box, ts[1], ts[2])>>
    /\ UNCHANGED <<treeVars, travVars, arg>>

CallFace ==
    /\ ret = None
    /\ ret' = <<Face_hits(arg.face, arg.ray)>>
    /\ UNCHANGED <<treeVars, travVars, arg>>

SpecSlab == InitSlab /\ [][CallSlab]_vars
SpecBox == InitBox /\ [][CallBox]_vars
SpecFace == InitFace /\ [][CallFace]_vars

----------------------------------------------------------------------------
(* C1: for every list L and ray r, BoundingVolumeHierarchy::new(L).hits(r)  *)
(* and the linear scan L.hits(r) agree: both None, or both Some with the    *)
(* same distance.                                                           *)

SameHit(h1, h2) ==
    \/ h1 = None /\ h2 = None
    \/ /\ h1 # None
       /\ h2 # None
       /\ \/ FEq(h1[1].distance, h2[1].distance)
          \/ IsNaN(h1[1].distance) /\ IsNaN(h2[1].distance)

\* C1: when the traversal has finished, its result and the result of the
\* linear scan over the list the tree was built from are both None or both
\* Some with the same distance
NearestHitEquivalence == pc = "done" => SameHit(result, Vec_hits(faces, ray))

----------------------------------------------------------------------------
(* Shapes of trees *)

\* the primitives in the leaves of a tree
RECURSIVE FacesOf(_)
FacesOf(t) ==
    CASE t.kind = "Empty" -> {}
      [] t.kind = "Child" -> {t.face}
      [] t.kind = "Node" -> FacesOf(t.left) \cup FacesOf(t.right)

\* the number of Node levels on the longest path from the root to a leaf
RECURSIVE Height(_)
Height(t) ==
    IF t.kind = "Node"
    THEN 1 + (IF Height(t.left) > Height(t.right) THEN Height(t.left) ELSE Height(t.right))
    ELSE 0

\* ceil(log2 n) for n >= 1
CeilLog2(n) == CHOOSE h \in 0..n : 2^h >= n /\ (h = 0 \/ 2^(h - 1) < n)

\* C2: the tree built from a list has as many Child leaves as the list has
\* primitives, and the tree built from the empty list is Empty
SizeEqualsLength ==
    /\ size(tree) = Len(faces)
    /\ faces = <<>> => tree = empty

SizeOfThree == Len(faces) = 3 /\ tree.kind = "Node" /\ size(tree) = 3

\* every subtree is Empty, Child or Node as it holds 0, 1 or more primitives
RECURSIVE FollowsRule(_)
FollowsRule(t) ==
    /\ t.kind = "Empty" <=> size(t) = 0
    /\ t.kind = "Child" <=> size(t) = 1
    /\ t.kind = "Node" <=> size(t) >= 2
    /\ t.kind = "Node" => FollowsRule(t.left) /\ FollowsRule(t.right)

\* C8: new returns Empty exactly for a list of 0 primitives, a Child holding
\* the primitive exactly for a list of 1, a Node exactly for 2 or more, and
\* the same holds of every subtree and the primitives it was built from
BuildCases ==
    /\ tree.kind = "Empty" <=> Len(faces) = 0
    /\ tree.kind = "Child" <=> Len(faces) = 1
    /\ Len(faces) = 1 => tree = leaf(faces[1])
    /\ tree.kind = "Node" <=> Len(faces) >= 2
    /\ FollowsRule(tree)

NodeOverNode == Len(faces) = 4 /\ tree.kind = "Node" /\ tree.left.kind = "Node"

\* every primitive on the left of a Node at depth d sorts no later, by the
\* min_extents coordinate on axis d mod 3, than every primitive on its right
RECURSIVE SplitSorted(_, _)
SplitSorted(t, d) ==
    t.kind = "Node" =>
        /\ \A l \in FacesOf(t.left), r \in FacesOf(t.right) :
              FLe(Coord(Face_min_extents(l), d % 3), Coord(Face_min_extents(r), d % 3))
        /\ SplitSorted(t.left, d + 1)
        /\ SplitSorted(t.right, d + 1)

\* C9: in the tree built by new, the primitives of every Node are divided in
\* the order of their min_extents coordinate on the axis of the Node's depth
SortedMedianSplit == SplitSorted(tree, 0)

\* every Node holds floor(k/2) of its k leaves on the left, ceil(k/2) on the right
RECURSIVE HalvesBalanced(_)
HalvesBalanced(t) ==
    t.kind = "Node" =>
        /\ size(t.left) = size(t) \div 2
        /\ size(t.right) = size(t) - size(t) \div 2
        /\ HalvesBalanced(t.left)
        /\ HalvesBalanced(t.right)

\* C10: the tree built from n >= 1 primitives has height ceil(log2 n), and
\* every Node of it has floor(k/2) of its k leaves on the left and ceil(k/2)
\* on the right
BalancedDepth ==
    /\ Len(faces) >= 1 => Height(tree) = CeilLog2(Len(faces))
    /\ HalvesBalanced(tree)

HeightOfFive == Len(faces) = 5 /\ Height(tree) = 3 /\ size(tree.left) = 2 /\ size(tree.right) = 3

----------------------------------------------------------------------------
(* Bounding boxes *)

\* the box of every Node is the box of its two children and holds every
\* vertex below it
RECURSIVE Bounded(_)
Bounded(t) ==
    t.kind = "Node" =>
        /\ VEq(t.min, VMin(min_extents(t.left), min_extents(t.right)))
        /\ VEq(t.max, VMax(max_extents(t.left), max_extents(t.right)))
        /\ VLe(t.min, min_extents(t.left)) /\ VLe(t.min, min_extents(t.right))
        /\ VLe(max_extents(t.left), t.max) /\ VLe(max_extents(t.right), t.max)
        /\ \A f \in FacesOf(t) : \A v \in {f.a, f.b, f.c} : VLe(t.min, v) /\ VLe(v, t.max)
        /\ Bounded(t.left)
        /\ Bounded(t.right)

\* C3: in every tree made by new, node, leaf, empty and translate (finite
\* vertices, finite translations), each Node's min is the component-wise
\* minimum of its children's min_extents and its max the maximum of their
\* max_extents, so the box holds the children's boxes and every vertex below
BoundingInvariant == Bounded(tree) /\ Bounded(spare)

TranslatedNodeOverNode ==
    /\ tree.kind = "Node"
    /\ tree.left.kind = "Node"
    /\ edits = MaxEdits
    /\ FGt(tree.max.x, I(16777216))

----------------------------------------------------------------------------
(* Face::hits in the facing scenario *)

ForwardRay == Ray(V3(Zero, Half, I(-10)), Vec(0, 0, 1))
ReverseRay == Ray(V3(Zero, Half, I(10)), Vec(0, 0, -1))

\* a hit at (0, 0.5, 0), at the distance and with the tag given
HitIs(h, distance, tag) ==
    /\ h # None
    /\ FEq(h[1].distance, distance)
    /\ VEq(h[1].contact_point, V3(Zero, Half, Zero))
    /\ h[1].direction = tag

----------------------------------------------------------------------------
(* collide_slab *)

\* the ray's direction and origin on the axis of the slab
SlabDir == arg.ray.direction.x
SlabOrigin == arg.ray.origin.x

\* C5: for a direction component of zero, collide_slab returns (-inf, +inf)
\* when the origin coordinate is within [min, max] and (+inf, +inf) when it
\* is below min or above max
ParallelPolicy ==
    (ret # None /\ IsZero(SlabDir)) =>
        IF FLe(arg.min, SlabOrigin) /\ FLe(SlabOrigin, arg.max)
        THEN ret[1] = <<NInf, PInf>>
        ELSE ret[1] = <<PInf, PInf>>

\* the plane the ray meets first and the one it meets last
EntryPlane == IF FGt(SlabDir, Zero) THEN arg.min ELSE arg.max
ExitPlane == IF FGt(SlabDir, Zero) THEN arg.max ELSE arg.min

\* a call with a non-zero direction component and min < max has returned
SlabCrossed == ret # None /\ ~IsZero(SlabDir) /\ FLt(arg.min, arg.max)

FAbs(x) == IF Neg(x) THEN FNeg(x) ELSE x

\* v is the plane up to the rounding of 1/dir, of the product with it and of
\* Ray::at: within 2^-21 * (|plane - origin| + |plane|)
Near(v, plane) ==
    FLe(FAbs(FSub(v, plane)),
        FMul(<<1, -21>>, FAdd(FAbs(FSub(plane, SlabOrigin)), FAbs(plane))))

\* dir is a power of two or the negative of one: 1/dir is exact
PowerOfTwo(d) == BitLen(Abs(d[1])) = 1

\* C6, as the code has it: for a non-zero direction component and min < max,
\* collide_slab returns (lo, hi) with lo <= hi, and the coordinates of
\* origin + lo*dir and origin + hi*dir are the planes (min, max) for dir > 0,
\* (max, min) for dir < 0, up to rounding; they are the planes exactly when
\* dir is a power of two
SlabSymmetry ==
    SlabCrossed =>
        /\ FLe(ret[1][1], ret[1][2])
        /\ Near(at(arg.ray, ret[1][1]).x, EntryPlane)
        /\ Near(at(arg.ray, ret[1][2]).x, ExitPlane)
        /\ PowerOfTwo(SlabDir) =>
              /\ FEq(at(arg.ray, ret[1][1]).x, EntryPlane)
              /\ FEq(at(arg.ray, ret[1][2]).x, ExitPlane)

\* C6 as stated: lo < hi and the two coordinates are exactly the planes
SlabSymmetryExact ==
    SlabCrossed =>
        /\ FLt(ret[1][1], ret[1][2])
        /\ FEq(at(arg.ray, ret[1][1]).x, EntryPlane)
        /\ FEq(at(arg.ray, ret[1][2]).x, ExitPlane)

\* a ray against its axis that does not land on the plane it meets first
BackwardInexact ==
    /\ SlabCrossed
    /\ FLt(SlabDir, Zero)
    /\ ~FEq(at(arg.ray, ret[1][1]).x, EntryPlane)

----------------------------------------------------------------------------
(* collide_box *)

\* the three slabs of the call
SlabOf(axis) ==
    collide_slab(Coord(compute_t_s(arg.ray)[1], axis), Coord(compute_t_s(arg.ray)[2], axis),
                 Coord(arg.box.min, axis), Coord(arg.box.max, axis))

\* the greatest slab lower value and the least slab upper value, by f32::max
\* and f32::min from -inf and +inf on: a NaN slab value is passed over
Entry == FMax(FMax(FMax(NInf, SlabOf(0)[1]), SlabOf(1)[1]), SlabOf(2)[1])
Exit == FMin(FMin(FMin(PInf, SlabOf(0)[2]), SlabOf(1)[2]), SlabOf(2)[2])

\* the three cases of the result
Misses(entry, exit) == FEq(entry, PInf) \/ FGt(entry, exit) \/ FLe(exit, Zero)
HitsAhead(entry, exit) == FLe(Zero, entry) /\ FLe(entry, exit) /\ FGt(exit, Zero)
HitsAround(entry, exit) == FLt(entry, Zero) /\ FLt(Zero, exit)

\* the result r is the one the policy gives for entry and exit
Policy(entry, exit, r) ==
    /\ Misses(entry, exit) => r = <<FALSE, PInf>>
    /\ (~Misses(entry, exit) /\ HitsAhead(entry, exit)) => r[1] /\ FEq(r[2], entry)
    /\ (~Misses(entry, exit) /\ HitsAround(entry, exit)) => r = <<TRUE, Zero>>
    /\ Misses(entry, exit) \/ HitsAhead(entry, exit) \/ HitsAround(entry, exit)

\* C7: collide_box returns (false, +inf) when entry = +inf, entry > exit or
\* exit <= 0; otherwise (true, entry) when 0 <= entry <= exit and exit > 0,
\* and (true, 0) when entry < 0 < exit; one of the three cases always applies
BoxPolicy == ret # None => Policy(Entry, Exit, ret[1])

OriginInside == ret # None /\ ret[1] = <<TRUE, Zero>> /\ FLt(Entry, Zero) /\ FLt(Zero, Exit)


----------------------------------------------------------------------------
(* The traversal's queue *)

\* the number of Node values in a tree
RECURSIVE NodeCount(_)
NodeCount(t) == IF t.kind = "Node" THEN 1 + NodeCount(t.left) + NodeCount(t.right) ELSE 0

\* the number of places in the tree t where the subtree n stands
RECURSIVE Occurrences(_, _)
Occurrences(t, n) ==
    (IF t = n THEN 1 ELSE 0)
      + (IF t.kind = "Node" THEN Occurrences(t.left, n) + Occurrences(t.right, n) ELSE 0)

\* the number of entries of the sequence q that hold n
Holding(q, n) == Cardinality({i \in 1..Len(q) : q[i].data = n})

\* every entry pushed so far: the ones popped and the ones still queued
Pushed == popped \o heap

\* no Node is pushed more often than it stands in the tree, and no more
\* entries are popped than the tree has Nodes
PushedOnce ==
    /\ \A i \in 1..Len(Pushed) : Holding(Pushed, Pushed[i].data) <= Occurrences(tree, Pushed[i].data)
    /\ Len(popped) <= NodeCount(tree)

\* C11: a call of hits terminates: each Node is pushed onto the queue at
\* most once in one traversal, the number of pops is at most the number of
\* Nodes of the tree, and a call that has entered the loop returns
TraversalTerminates == [](PushedOnce) /\ (pc = "loop" ~> pc = "done")

EveryNodePopped == pc = "done" /\ NodeCount(tree) = 2 /\ Len(popped) = 2

----------------------------------------------------------------------------
(* C12: translating by t1 and then by t2 against translating once by       *)
(* t1 + t2, for a tree, a Face and a Vec of faces                          *)

\* the largest list translated
MaxShiftFaces == 2

\* translations: nothing, small integers, a half, and 2^24 with its opposite
ShiftPool ==
    { Vec(0, 0, 0), Vec(1, -2, 0), V3(Half, Zero, I(5)),
      Vec(16777216, 0, 3), Vec(-16777216, 1, -3) }

ShiftArgs ==
    { [faces |-> fs, tree |-> t, t1 |-> p, t2 |-> q] :
        fs \in Lists({F1, F4}, MaxShiftFaces),
        t \in {empty, leaf(F4), node(leaf(F1), empty), node(leaf(F4), leaf(F1))},
        p \in ShiftPool, q \in ShiftPool }

InitShift == Start /\ arg \in ShiftArgs /\ ret = None

\* the tree, built or hand-assembled, and the list, each translated twice,
\* once by the sum, and by the zero vector
Shifted(t, fs, p, q) ==
    [ twice |-> translate(translate(t, p), q),
      once |-> translate(t, VAdd(p, q)),
      zero |-> translate(t, Vec(0, 0, 0)),
      vtwice |-> Vec_translate(Vec_translate(fs, p), q),
      vonce |-> Vec_translate(fs, VAdd(p, q)),
      vzero |-> Vec_translate(fs, Vec(0, 0, 0)),
      built |-> translate(translate(new(fs), p), q),
      bonce |-> translate(new(fs), VAdd(p, q)) ]

CallShift ==
    /\ ret = None
    /\ ret' = <<Shifted(arg.tree, arg.faces, arg.t1, arg.t2)>>
    /\ UNCHANGED <<treeVars, travVars, arg>>

SpecShift == InitShift /\ [][CallShift]_vars

\* PartialEq for Face: src/geometry/src/face.rs 95-100 compares the corners
FaceEq(f, g) == VEq(f.a, g.a) /\ VEq(f.b, g.b) /\ VEq(f.c, g.c)

RECURSIVE TreeEq(_, _)
TreeEq(t, u) ==
    /\ t.kind = u.kind
    /\ t.kind = "Child" => FaceEq(t.face, u.face)
    /\ t.kind = "Node" =>
        /\ VEq(t.min, u.min) /\ VEq(t.max, u.max)
        /\ TreeEq(t.left, u.left) /\ TreeEq(t.right, u.right)

ListEq(v, w) == Len(v) = Len(w) /\ \A i \in 1..Len(v) : FaceEq(v[i], w[i])

\* x and y are a + p + q up to the roundings of the three sums involved
CloseCoord(a, x, y, p, q) ==
    \/ FEq(x, y)
    \/ FLe(FAbs(FSub(x, y)), FMul(<<1, -21>>, FAdd(FAdd(FAbs(a), FAbs(p)), FAbs(q))))

CloseVec(a, x, y, p, q) ==
    /\ CloseCoord(a.x, x.x, y.x, p.x, q.x)
    /\ CloseCoord(a.y, x.y, y.y, p.y, q.y)
    /\ CloseCoord(a.z, x.z, y.z, p.z, q.z)

CloseFace(f, g, h, p, q) ==
    CloseVec(f.a, g.a, h.a, p, q) /\ CloseVec(f.b, g.b, h.b, p, q) /\ CloseVec(f.c, g.c, h.c, p, q)

RECURSIVE CloseTree(_, _, _, _, _)
CloseTree(t, u, w, p, q) ==
    /\ u.kind = t.kind /\ w.kind = t.kind
    /\ t.kind = "Child" => CloseFace(t.face, u.face, w.face, p, q)
    /\ t.kind = "Node" =>
        /\ CloseVec(t.min, u.min, w.min, p, q) /\ CloseVec(t.max, u.max, w.max, p, q)
        /\ CloseTree(t.left, u.left, w.left, p, q)
        /\ CloseTree(t.right, u.right, w.right, p, q)

CloseList(v, u, w, p, q) ==
    /\ Len(u) = Len(v) /\ Len(w) = Len(v)
    /\ \A i \in 1..Len(v) : CloseFace(v[i], u[i], w[i], p, q)

\* every component of p and q is an integer below 2^22 in magnitude, so that
\* no sum with the integer corners of the pool rounds
SmallInt(x) == x[2] >= 0 /\ x[2] < EInf /\ FLt(FAbs(x), <<1, 22>>)
ExactShift(p, q) == \A x \in {p.x, p.y, p.z, q.x, q.y, q.z} : SmallInt(x)

\* C12 as stated: the two translations give equal trees and equal lists
TranslateComposesExactly ==
    ret # None =>
        /\ TreeEq(ret[1].twice, ret[1].once)
        /\ TreeEq(ret[1].built, ret[1].bonce)
        /\ ListEq(ret[1].vtwice, ret[1].vonce)

\* C12: translate(t1).translate(t2) and translate(t1 + t2) have the shape of
\* the original and agree on every corner and every Node bound to within
\* 2^-21 * (|a| + |t1| + |t2|), exactly when no sum rounds; translating by
\* the zero vector gives a tree, and a list, equal to the original
TranslateComposes ==
    ret # None =>
        /\ CloseTree(arg.tree, ret[1].twice, ret[1].once, arg.t1, arg.t2)
        /\ CloseTree(new(arg.faces), ret[1].built, ret[1].bonce, arg.t1, arg.t2)
        /\ CloseList(arg.faces, ret[1].vtwice, ret[1].vonce, arg.t1, arg.t2)
        /\ ExactShift(arg.t1, arg.t2) =>
            /\ TreeEq(ret[1].twice, ret[1].once)
            /\ TreeEq(ret[1].built, ret[1].bonce)
            /\ ListEq(ret[1].vtwice, ret[1].vonce)
        /\ TreeEq(ret[1].zero, arg.tree)
        /\ ListEq(ret[1].vzero, arg.faces)

\* a Node over two leaves moved by 2^24 and back: the corner at 1 comes back as 0
RoundedAway ==
    /\ ret # None
    /\ arg.tree.kind = "Node" /\ arg.tree.right.kind = "Child"
    /\ arg.t1 = Vec(16777216, 0, 3) /\ arg.t2 = Vec(-16777216, 1, -3)
    /\ ~TreeEq(ret[1].twice, ret[1].once)
    /\ Len(arg.faces) = 2

----------------------------------------------------------------------------
(* C13: what Face::hits returns against the ray it was given *)

\* t of Face::hits, the distance along the ray to the plane of the face
PlaneT(f, r) ==
    FDiv(FSub(Dot(f.face_normal, f.a), Dot(f.face_normal, r.origin)), Dot(r.direction, f.face_normal))

\* C13: every Some(c) returned by Face::hits has c.distance >= 0 and
\* c.contact_point = ray.at(c.distance), and a plane intersection with t < 0
\* gives None
HitConsistent ==
    ret # None =>
        /\ ret[1] # None =>
            /\ FGe(ret[1][1].distance, Zero)
            /\ VEq(ret[1][1].contact_point, at(arg.ray, ret[1][1].distance))
        /\ FLt(PlaneT(arg.face, arg.ray), Zero) => ret[1] = None

----------------------------------------------------------------------------
(* C14: the linear scan, impl Plane for Vec<T>::hits *)

InitScan ==
    /\ Start
    /\ arg \in {[faces |-> fs, ray |-> r] : fs \in Lists(FacePool, MaxFaces), r \in RayPool}
    /\ ret = None

CallScan ==
    /\ ret = None
    /\ ret' = <<Vec_hits(arg.faces, arg.ray)>>
    /\ UNCHANGED <<treeVars, travVars, arg>>

SpecScan == InitScan /\ [][CallScan]_vars

\* element k of v is hit, no element is hit nearer, and no earlier element is
\* hit at the same distance
FirstNearest(v, r, k) ==
    /\ Face_hits(v[k], r) # None
    /\ \A j \in 1..Len(v) :
        Face_hits(v[j], r) # None =>
            /\ FLe(Face_hits(v[k], r)[1].distance, Face_hits(v[j], r)[1].distance)
            /\ j < k => ~FEq(Face_hits(v[j], r)[1].distance, Face_hits(v[k], r)[1].distance)

\* C14: Vec::hits returns None exactly when no element is hit, and otherwise
\* the collision of the first element in list order whose hit distance is
\* the minimum over all elements' hits
ScanNearest ==
    ret # None =>
        /\ ret[1] = None <=> \A j \in 1..Len(arg.faces) : Face_hits(arg.faces[j], arg.ray) = None
        /\ ret[1] # None =>
            \E k \in 1..Len(arg.faces) :
                /\ FirstNearest(arg.faces, arg.ray, k)
                /\ ret[1] = Face_hits(arg.faces[k], arg.ray)

----------------------------------------------------------------------------
(* C15: several hits calls on one tree, their iterations interleaved.  hits *)
(* takes &self; ray, queue, min_t and result are locals of each call.       *)

\* the longest primitive list of the shared tree
MaxPairFaces == 3

\* the calls that run side by side
CallIds == {1, 2}

\* rays towards the faces from below, from above and from between them
PairRays ==
    { Ray(V3(Half, Half, Zero), Vec(0, 0, 1)),
      Ray(V3(Half, Half, I(5)), Vec(0, 0, -1)),
      Ray(V3(Half, Half, I(2)), Vec(0, 0, 1)) }

\* the locals of one call
Frame(r, where, h, m, res) == [ray |-> r, pc |-> where, heap |-> h, min_t |-> m, result |-> res]

\* Plane::hits of the tree up to the first test of collide's while loop
Enter(self, r) ==
    CASE self.kind = "Empty" -> Frame(r, "done", <<>>, PInf, None)
      [] self.kind = "Child" -> Frame(r, "done", <<>>, PInf, Face_hits(self.face, r))
      [] self.kind = "Node" ->
            Frame(r, "loop", Seed(self, collide_box(self, compute_t_s(r)[1], compute_t_s(r)[2])),
                  PInf, None)

\* the locals after the two collide_child calls
Continue(c, st) == Frame(c.ray, "loop", st.heap, st.min_t, st.result)

\* one iteration of collide's while loop on the locals c, popping entry i
Iterate(c, i) ==
    IF FGt(c.heap[i].cost, c.min_t) THEN Frame(c.ray, "done", Remove(c.heap, i), c.min_t, c.result)
    ELSE IF c.heap[i].data.kind = "Node"
    THEN Continue(c, Expand(c.heap[i].data, c.ray, compute_t_s(c.ray)[1], compute_t_s(c.ray)[2],
                            Local(c.min_t, c.result, Remove(c.heap, i))))
    ELSE Frame(c.ray, "panic", Remove(c.heap, i), c.min_t, c.result)

\* locals where call q reads the best distance of call 1
Own_shared(cs, q) == [cs[q] EXCEPT !.min_t = cs[1].min_t]

\* the locals call q works on: its own
Own(cs, q) == cs[q]

InitPair ==
    /\ faces \in Lists({F1, F2}, MaxPairFaces)
    /\ tree = new(faces)
    /\ spare = empty /\ edits = 0
    /\ ray = None /\ pc = "idle" /\ heap = <<>> /\ min_t = PInf /\ result = None /\ popped = <<>>
    /\ calls = [q \in CallIds |-> Frame(None, "idle", <<>>, PInf, None)]
    /\ arg = None /\ ret = None

\* call q enters hits with ray r
Begin(q, r) ==
    /\ calls[q].pc = "idle"
    /\ calls' = [calls EXCEPT ![q] = Enter(tree, r)]
    /\ UNCHANGED <<treeVars, callVars, ray, pc, heap, min_t, result, popped>>

\* call q runs one iteration of its while loop, or leaves it
Step(q) ==
    /\ calls[q].pc = "loop"
    /\ IF calls[q].heap = <<>>
       THEN calls' = [calls EXCEPT ![q].pc = "done"]
       ELSE \E i \in PopIndexes(calls[q].heap) :
                calls' = [calls EXCEPT ![q] = Iterate(Own(calls, q), i)]
    /\ UNCHANGED <<treeVars, callVars, ray, pc, heap, min_t, result, popped>>

NextPair ==
    \/ \E q \in CallIds, r \in PairRays : Begin(q, r)
    \/ \E q \in CallIds : Step(q)

SpecPair == InitPair /\ [][NextPair]_vars

\* the results a call with locals c can return when it runs alone
RECURSIVE Outcomes(_)
Outcomes(c) ==
    IF c.pc # "loop" THEN {<<c.pc, c.result>>}
    ELSE IF c.heap = <<>> THEN {<<"done", c.result>>}
    ELSE UNION {Outcomes(Iterate(c, i)) : i \in PopIndexes(c.heap)}

\* C15: with two hits calls interleaved on one tree, the tree stays the one
\* that was built, and each call that has returned holds a result the same
\* call returns when it runs alone
Isolation ==
    /\ tree = new(faces)
    /\ \A q \in CallIds :
        calls[q].pc = "done" => <<"done", calls[q].result>> \in Outcomes(Enter(tree, calls[q].ray))

\* call 1 has returned a hit while call 2, on another ray, is inside its loop
\* with a hit found and a Node still queued
Interleaved ==
    /\ calls[1].pc = "done" /\ calls[1].result # None
    /\ calls[2].pc = "loop" /\ calls[2].heap # <<>> /\ calls[2].result # None
    /\ calls[1].ray # calls[2].ray
    /\ calls[1].min_t # calls[2].min_t

----------------------------------------------------------------------------
(* read_obj_file: src/obj-loader/src/lib.rs.  A file is the sequence of its *)
(* lines, a line the sequence of its whitespace-separated tokens, a token   *)
(* the sequence of its characters.  A call ends in Ok, in Err or in a       *)
(* panic.  A usize is kept as an integer, a negative one standing for the   *)
(* value 2^64 less its magnitude that `as usize` gives.                     *)

Ok(v) == [kind |-> "Ok", value |-> v]
Err(e) == [kind |-> "Err", error |-> e]
Panic(m) == [kind |-> "Panic", message |-> m]

DigitChars == <<"0", "1", "2", "3", "4", "5", "6", "7", "8", "9">>
DigitValue(c) == (CHOOSE d \in 1..10 : DigitChars[d] = c) - 1
IsDigit(c) == \E d \in 1..10 : DigitChars[d] = c

\* the value of a run of decimal digits, read from the left
RECURSIVE Decimal(_, _)
Decimal(s, acc) == IF s = <<>> THEN acc ELSE Decimal(Tail(s), 10 * acc + DigitValue(Head(s)))

\* str::parse of a number: an optional sign and at least one digit
parse(s) ==
    IF s # <<>> /\ Head(s) \in {"-", "+"}
    THEN (IF Tail(s) # <<>> /\ \A i \in 2..Len(s) : IsDigit(s[i])
          THEN Ok((IF Head(s) = "-" THEN -1 ELSE 1) * Decimal(Tail(s), 0))
          ELSE Err("NotAFloat"))
    ELSE IF s # <<>> /\ \A i \in 1..Len(s) : IsDigit(s[i]) THEN Ok(Decimal(s, 0))
    ELSE Err("NotAFloat")

\* ensure and maybe: token is None or Some(s)
ensure(token) == IF token = None THEN Err("UnexpectedEndOfFile") ELSE parse(token[1])
maybe(token, default) == IF token = None \/ token = Some(<<>>) THEN Ok(default) ELSE parse(token[1])

\* str::split: the parts of s between the separators
RECURSIVE split(_, _, _)
split(s, sep, part) ==
    IF s = <<>> THEN <<part>>
    ELSE IF Head(s) = sep THEN <<part>> \o split(Tail(s), sep, <<>>)
    ELSE split(Tail(s), sep, Append(part, Head(s)))

\* Iterator::next on the parts or tokens from position i
next(parts, i) == IF i <= Len(parts) THEN Some(parts[i]) ELSE None

\* to_triple once the three fields are read: the assert, then Ok
TripleOf(parts, vertex, texture, normal) ==
    IF vertex.kind = "Err" THEN vertex
    ELSE IF texture.kind = "Err" THEN texture
    ELSE IF normal.kind = "Err" THEN normal
    ELSE IF next(parts, 4) # None THEN Panic("assertion failed: parts.next().is_none()")
    ELSE Ok(<<vertex.value, texture.value, normal.value>>)

to_triple(token) ==
    TripleOf(split(token, "/", <<>>), ensure(next(split(token, "/", <<>>), 1)),
             maybe(next(split(token, "/", <<>>), 2), 0), maybe(next(split(token, "/", <<>>), 3), 0))

\* a negative field counts back from the size; the cast to usize keeps a
\* negative result as it is (see the head of this section)
Positive(field, sz) == IF field < 0 THEN sz + field + 1 ELSE field
to_positive_triple(fields, vertex_size, texture_size, normal_size) ==
    <<Positive(fields[1], vertex_size), Positive(fields[2], texture_size),
      Positive(fields[3], normal_size)>>

\* the collect of process_face: the triples of the tokens from i on, up to
\* the first token that fails
RECURSIVE Triples(_, _, _, _)
Triples(tokens, i, sizes, acc) ==
    IF i > Len(tokens) THEN Ok(acc)
    ELSE IF to_triple(tokens[i]).kind # "Ok" THEN to_triple(tokens[i])
    ELSE Triples(tokens, i + 1, sizes,
                 Append(acc, to_positive_triple(to_triple(tokens[i]).value, sizes[1], sizes[2], sizes[3])))

ObjFace(a, b, c) == [av |-> a[1], at |-> a[2], an |-> a[3], bv |-> b[1], bt |-> b[2], bn |-> b[3],
                     cv |-> c[1], ct |-> c[2], cn |-> c[3]]

\* process_face that makes a strip of faces, each on the three latest triples
Fan_strip(triples, st) ==
    IF triples.kind # "Ok" THEN triples
    ELSE IF Len(triples.value) < 3 THEN Err(<<"NotEnoughVerticesInFace", Len(triples.value)>>)
    ELSE Ok([st EXCEPT !.faces = st.faces \o
                [k \in 1..Len(triples.value) - 2 |->
                    ObjFace(triples.value[k], triples.value[k + 1], triples.value[k + 2])]])

\* process_face after the collect: a fan of faces about the first triple
Fan(triples, st) ==
    IF triples.kind # "Ok" THEN triples
    ELSE IF Len(triples.value) < 3 THEN Err(<<"NotEnoughVerticesInFace", Len(triples.value)>>)
    ELSE Ok([st EXCEPT !.faces = st.faces \o
                [k \in 1..Len(triples.value) - 2 |->
                    ObjFace(triples.value[1], triples.value[k + 1], triples.value[k + 2])]])

process_face(tokens, st) ==
    Fan(Triples(tokens, 2, <<Len(st.vertices), Len(st.textures), Len(st.normals)>>, <<>>), st)

\* the numbers of a v, vn or vt line: the first `need` by ensure, the rest by
\* maybe with the default
RECURSIVE Numbers(_, _, _, _, _, _)
Numbers(tokens, i, need, most, default, acc) ==
    IF i > most THEN Ok(acc)
    ELSE IF i <= need /\ ensure(next(tokens, i + 1)).kind = "Err" THEN ensure(next(tokens, i + 1))
    ELSE IF i > need /\ maybe(next(tokens, i + 1), default).kind = "Err" THEN maybe(next(tokens, i + 1), default)
    ELSE Numbers(tokens, i + 1, need, most, default,
                 Append(acc, IF i <= need THEN ensure(next(tokens, i + 1)).value
                             ELSE maybe(next(tokens, i + 1), default).value))

\* process_vertex, process_normal, process_texture: the record pushed
Pushed_to(st, field, numbers) ==
    IF numbers.kind # "Ok" THEN numbers
    ELSE Ok([st EXCEPT ![field] = Append(st[field], numbers.value)])

process_vertex(tokens, st) == Pushed_to(st, "vertices", Numbers(tokens, 1, 3, 4, 1, <<>>))
process_normal(tokens, st) == Pushed_to(st, "normals", Numbers(tokens, 1, 3, 3, 0, <<>>))
process_texture(tokens, st) == Pushed_to(st, "textures", Numbers(tokens, 1, 1, 3, 0, <<>>))

Ignored == {<<"l">>, <<"g">>, <<"o">>, <<"s">>, <<"m", "t", "l", "l", "i", "b">>, <<"u", "s", "e", "m", "t", "l">>}

\* process_line on the tokens of a trimmed line
process_line(tokens, st) ==
    IF tokens = <<>> \/ Head(Head(tokens)) = "#" THEN Ok(st)
    ELSE CASE Head(tokens) = <<"v">> -> process_vertex(tokens, st)
           [] Head(tokens) = <<"v", "n">> -> process_normal(tokens, st)
           [] Head(tokens) = <<"v", "t">> -> process_texture(tokens, st)
           [] Head(tokens) = <<"f">> -> process_face(tokens, st)
           [] Head(tokens) \in Ignored -> Ok(st)
           [] OTHER -> Err("UnknownCommand")

\* the while loop of read_obj_file, from line i
RECURSIVE ReadLines(_, _, _)
ReadLines(file, i, st) ==
    IF i > Len(file) \/ st.kind # "Ok" THEN st
    ELSE ReadLines(file, i + 1, process_line(file[i], st.value))

\* get_element_from on an index kept as above
get_element_from(index, data) ==
    IF index = 0 THEN Panic("Cannot have an index of 0 in a face!")
    ELSE IF index < 0 \/ index > Len(data) THEN Panic("index out of bounds")
    ELSE Ok(data[index])

\* ObjVertex::to_vector_3d: the point of a homogenous vertex
to_vector_3d(v) == V3(FDiv(I(v[1]), I(v[4])), FDiv(I(v[2]), I(v[4])), FDiv(I(v[3]), I(v[4])))

\* one face of the for loop of read_obj_file
Corners(av, bv, cv) ==
    IF av.kind # "Ok" THEN av
    ELSE IF bv.kind # "Ok" THEN bv
    ELSE IF cv.kind # "Ok" THEN cv
    ELSE Ok(<<to_vector_3d(av.value), to_vector_3d(bv.value), to_vector_3d(cv.value)>>)

\* the for loop of read_obj_file, from face i
RECURSIVE Convert(_, _, _, _)
Convert(fcs, vertices, i, model) ==
    IF i > Len(fcs) \/ model.kind # "Ok" THEN model
    ELSE Convert(fcs, vertices, i + 1,
                 Pushed_to(model.value, "model",
                           Corners(get_element_from(fcs[i].av, vertices),
                                   get_element_from(fcs[i].bv, vertices),
                                   get_element_from(fcs[i].cv, vertices))))

Model(st) ==
    IF st.kind # "Ok" THEN st
    ELSE IF Convert(st.value.faces, st.value.vertices, 1, Ok([model |-> <<>>])).kind # "Ok"
    THEN Convert(st.value.faces, st.value.vertices, 1, Ok([model |-> <<>>]))
    ELSE Ok(Convert(st.value.faces, st.value.vertices, 1, Ok([model |-> <<>>])).value.model)

\* read_obj_file on the lines of a file that could be opened
read_obj_file(file) ==
    Model(ReadLines(file, 1, Ok([vertices |-> <<>>, normals |-> <<>>, textures |-> <<>>, faces |-> <<>>])))

\* the longest file read
MaxLines == 4

\* two vertex lines, and face lines: well formed, with index 0, counting back
\* four vertices, with a token of four fields, with a token that is no number
VLine0 == << <<"v">>, <<"0">>, <<"0">>, <<"0">> >>
VLine2 == << <<"v">>, <<"2">>, <<"0">>, <<"1">>, <<"2">> >>
FGood == << <<"f">>, <<"1">>, <<"2", "/", "/", "1">>, <<"3", "/", "1">> >>
FZero == << <<"f">>, <<"0">>, <<"1">>, <<"2">> >>
FBack == << <<"f">>, <<"-", "1">>, <<"-", "2">>, <<"-", "4">> >>
FFour == << <<"f">>, <<"1", "/", "1", "/", "1", "/", "1">>, <<"2">>, <<"3">> >>
FJunk == << <<"f">>, <<"1">>, <<"x">>, <<"3">> >>
LinePool == {VLine0, VLine2, FGood, FZero, FBack, FFour, FJunk}

InitObj == Start /\ arg \in Lists(LinePool, MaxLines) /\ ret = None

CallObj ==
    /\ ret = None
    /\ ret' = <<read_obj_file(arg)>>
    /\ UNCHANGED <<treeVars, travVars, arg>>

SpecObj == InitObj /\ [][CallObj]_vars

\* the number of vertex lines among the first n lines
VCount(file, n) == Cardinality({i \in 1..n : Head(file[i]) = <<"v">>})

\* a face line refers to vertex 0, to a vertex past the last one, to one
\* before the first, or has a token of more than three fields
Malformed(file) ==
    \E i \in 1..Len(file) :
        \/ file[i] \in {FZero, FFour}
        \/ file[i] = FGood /\ VCount(file, Len(file)) < 3
        \/ file[i] = FBack /\ VCount(file, i - 1) < 4

\* C16: read_obj_file on a file with a malformed face line returns Err, and
\* no file makes it panic
MalformedRejected ==
    ret # None =>
        /\ ret[1].kind # "Panic"
        /\ Malformed(arg) => ret[1].kind = "Err"

----------------------------------------------------------------------------
(* read_file_binary: src/stl-loader/src/binary/mod.rs.  A file is the       *)
(* sequence of its bytes.                                                   *)

\* u32::from_le_bytes
u32_from_le_bytes(b) == b[1] + 256 * b[2] + 65536 * b[3] + 16777216 * b[4]

\* f32::from_le_bytes: sign, eight exponent bits and 23 fraction bits
f32_from_bits(neg, exp, frac) ==
    IF exp = 255 THEN (IF frac # 0 THEN NaN ELSE IF neg THEN NInf ELSE PInf)
    ELSE IF frac = 0 /\ exp = 0 THEN (IF neg THEN NegZero ELSE Zero)
    ELSE IF exp = 0 THEN Canon(IF neg THEN -frac ELSE frac, -149)
    ELSE Canon(IF neg THEN -(8388608 + frac) ELSE 8388608 + frac, exp - 150)

f32_from_le_bytes(b) ==
    f32_from_bits(b[4] >= 128, (b[4] % 128) * 2 + (b[3] \div 128),
                  (b[3] % 128) * 65536 + b[2] * 256 + b[1])

\* read_vec: the triple at offset 0..3 of a 50-byte record
read_vec(buff, offset) ==
    V3(f32_from_le_bytes(SubSeq(buff, offset * 12 + 1, offset * 12 + 4)),
       f32_from_le_bytes(SubSeq(buff, offset * 12 + 5, offset * 12 + 8)),
       f32_from_le_bytes(SubSeq(buff, offset * 12 + 9, offset * 12 + 12)))

is_zero(v) == FEq(v.x, Zero) /\ FEq(v.y, Zero) /\ FEq(v.z, Zero)

\* T::sqrt, exact, for the squares of the integers Vector3D::length meets here
sqrt(x) == IF IsZero(x) THEN x ELSE <<CHOOSE r \in 1..x[1] : r * r = x[1], 0>>
length(v) == sqrt(FAdd(FAdd(FMul(v.x, v.x), FMul(v.y, v.y)), FMul(v.z, v.z)))
normalize(v) == VDiv(v, length(v))

from_points(a, b, c) == from_points_with_face(normalize(Cross(VSub(b, a), VSub(c, b))), a, b, c)

\* the face of one record
RecordFace(buff) ==
    IF is_zero(read_vec(buff, 0))
    THEN from_points(read_vec(buff, 1), read_vec(buff, 2), read_vec(buff, 3))
    ELSE from_points_with_face(read_vec(buff, 0), read_vec(buff, 1), read_vec(buff, 2), read_vec(buff, 3))

\* the for loop of read_file_binary over 1..n_faces, at iteration i with pos
\* bytes of the file consumed
RECURSIVE ReadFaces(_, _, _, _, _)
ReadFaces(file, pos, i, n_faces, fcs) ==
    IF i >= n_faces THEN Ok(fcs)
    ELSE IF pos + 50 > Len(file) THEN Err("IOError")
    ELSE ReadFaces(file, pos + 50, i + 1, n_faces, Append(fcs, RecordFace(SubSeq(file, pos + 1, pos + 50))))

read_file_binary(file) ==
    IF Len(file) < 84 THEN Err("IOError")
    ELSE IF u32_from_le_bytes(SubSeq(file, 81, 84)) < 1 THEN Err("NoFacesFound")
    ELSE ReadFaces(file, 84, 1, u32_from_le_bytes(SubSeq(file, 81, 84)), <<>>)

\* the most records written to a file
MaxRecords == 3

\* the bytes of 0.0, 1.0, 2.0 and -1.0
LE0 == <<0, 0, 0, 0>>
LE1 == <<0, 0, 128, 63>>
LE2 == <<0, 0, 0, 64>>
LEm1 == <<0, 0, 128, 191>>

\* records: normal, three corners, two attribute bytes
Record(n, a, b, c) == n \o a \o b \o c \o <<0, 0>>
RecordPool ==
    { Record(LE0 \o LE0 \o LE1, LE0 \o LE0 \o LE1, LE2 \o LE0 \o LE1, LE0 \o LE2 \o LE1),
      Record(LE0 \o LE0 \o LE0, LE0 \o LE0 \o LE0, LE2 \o LE0 \o LE0, LE0 \o LE2 \o LE0),
      Record(LEm1 \o LE0 \o LE0, LE1 \o LE0 \o LE0, LE1 \o LE0 \o LE2, LE1 \o LE2 \o LE0) }

RECURSIVE Flatten(_)
Flatten(ss) == IF ss = <<>> THEN <<>> ELSE Head(ss) \o Flatten(Tail(ss))

\* a file: 80 header bytes, the count, the records, and perhaps the first
\* bytes of one more record
StlFile(count, records, extra) ==
    [i \in 1..80 |-> 32] \o count \o Flatten(records) \o [i \in 1..extra |-> 0]

StlFiles ==
    {StlFile(<<k, 0, 0, 0>>, rs, x) :
        k \in 0..(MaxRecords + 1), rs \in Lists(RecordPool, MaxRecords), x \in {0, 20}}
    \cup {StlFile(<<0, 1, 0, 0>>, <<>>, 0), [i \in 1..50 |-> 32]}

InitStl == Start /\ arg \in StlFiles /\ ret = None

CallStl ==
    /\ ret = None
    /\ ret' = <<read_file_binary(arg)>>
    /\ UNCHANGED <<treeVars, travVars, arg>>

SpecStl == InitStl /\ [][CallStl]_vars

\* the count n of the file, when the file has one
FaceCount(file) == u32_from_le_bytes(SubSeq(file, 81, 84))

\* C17: a file holding a count n >= 1 and then n complete records gives Ok
\* with the n faces of the records in file order, and a count of 0 gives
\* Err(NoFacesFound)
BinaryFaces ==
    (ret # None /\ Len(arg) >= 84) =>
        /\ (FaceCount(arg) >= 1 /\ Len(arg) = 84 + 50 * FaceCount(arg)) =>
            /\ ret[1].kind = "Ok"
            /\ Len(ret[1].value) = FaceCount(arg)
            /\ \A i \in 1..FaceCount(arg) :
                ret[1].value[i] = RecordFace(SubSeq(arg, 35 + 50 * i, 84 + 50 * i))
        /\ FaceCount(arg) = 0 => ret[1] = Err("NoFacesFound")

----------------------------------------------------------------------------
(* load_file: src/file-loader/src/lib.rs.  A filename is the sequence of    *)
(* its characters; what the two readers would return for the file is given. *)

\* the position of the last c in s, 0 when there is none
LastIndex(s, c) == IF \E i \in 1..Len(s) : s[i] = c THEN CHOOSE i \in 1..Len(s) : s[i] = c /\ \A j \in (i + 1)..Len(s) : s[j] # c ELSE 0

\* Path::file_name of a path that does not end in a separator or in ".."
file_name(path) == SubSeq(path, LastIndex(path, "/") + 1, Len(path))

\* an extension that is whatever follows the last dot of the path
extension_suffix(path) ==
    IF LastIndex(path, ".") = 0 THEN None ELSE Some(SubSeq(path, LastIndex(path, ".") + 1, Len(path)))

\* Path::extension: what follows the last dot of the file name, unless the
\* file name has no dot or only the one it begins with
extension(path) ==
    IF LastIndex(file_name(path), ".") <= 1 THEN None
    ELSE Some(SubSeq(file_name(path), LastIndex(file_name(path), ".") + 1, Len(file_name(path))))

\* the match arms of load_file on a reader's result
Wrapped(o, error) == IF o.kind = "Ok" THEN o ELSE Err(<<error, o.error>>)

\* load_file: the result, and the readers it called
load_file(filename, stl, obj) ==
    CASE extension(filename) = None -> [result |-> Err("UnknownFileType"), called |-> {}]
      [] extension(filename) = Some(<<"s", "t", "l">>) ->
            [result |-> Wrapped(stl, "StlScanError"), called |-> {"read_stl_file"}]
      [] extension(filename) = Some(<<"o", "b", "j">>) ->
            [result |-> Wrapped(obj, "ObjScanError"), called |-> {"read_obj_file"}]
      [] OTHER -> [result |-> Err("UnknownFileType"), called |-> {}]

Name(stem, ext) == stem \o ext
Stems == {<<"t", "e", "s", "t">>, <<>>, <<"d", ".", "x", "/">>, <<"d", "/", ".">>}
Endings ==
    { <<"s", "t", "l">>, <<".", "s", "t", "l">>, <<".", "o", "b", "j">>, <<".", "3", "d", "s">>,
      <<".", "S", "T", "L">>, <<".">>, <<".", "s", "t", "l", ".", "b", "a", "k">>, <<".", "s", "t", "l", "/", "o", "b", "j">> }
ReaderResults == {Ok(<<>>), Ok(<<F1>>), Err("NoFacesFound")}

InitLoad ==
    /\ Start
    /\ arg \in {[filename |-> Name(s, e), stl |-> x, obj |-> y] :
                    s \in Stems, e \in Endings, x \in ReaderResults, y \in ReaderResults \ {Ok(<<>>)}}
    /\ ret = None

CallLoad ==
    /\ ret = None
    /\ ret' = <<load_file(arg.filename, arg.stl, arg.obj)>>
    /\ UNCHANGED <<treeVars, travVars, arg>>

SpecLoad == InitLoad /\ [][CallLoad]_vars

\* name ends in a dot and e, with something other than a separator before the dot
EndsIn(name, e) ==
    /\ Len(name) > Len(e) + 1
    /\ SubSeq(name, Len(name) - Len(e), Len(name)) = <<".">> \o e
    /\ name[Len(name) - Len(e) - 1] # "/"

\* C18: for a filename with no extension, or with an extension other than
\* exactly "stl" or "obj", load_file returns Err(UnknownFileType) and calls
\* neither reader
UnknownRejected ==
    (ret # None /\ ~EndsIn(arg.filename, <<"s", "t", "l">>) /\ ~EndsIn(arg.filename, <<"o", "b", "j">>)) =>
        ret[1] = [result |-> Err("UnknownFileType"), called |-> {}]

\* "teststl", of tests::reject_not_stl, has been rejected where the STL
\* reader would have returned faces
RejectedNoDot ==
    /\ ret # None
    /\ arg.filename = <<"t", "e", "s", "t", "s", "t", "l">>
    /\ arg.stl = Ok(<<F1>>)
    /\ ret[1].result = Err("UnknownFileType")

----------------------------------------------------------------------------
(* Traversal of trees put together by hand with leaf, empty and node *)

\* the most node calls in a tree
MaxNodes == 2

\* the trees with exactly n Nodes over Empty and the leaves of F1 and F2
RECURSIVE TreesOf(_)
TreesOf(n) ==
    IF n = 0 THEN {empty, leaf(F1), leaf(F2)}
    ELSE UNION {{node(a, b) : a \in TreesOf(k), b \in TreesOf(n - 1 - k)} : k \in 0..(n - 1)}

\* every tree of up to MaxNodes Nodes, and every Node over two Nodes of leaves
HandTrees ==
    UNION {TreesOf(n) : n \in 0..MaxNodes} \cup {node(a, b) : a \in TreesOf(1), b \in TreesOf(1)}

HandRays == {Ray(V3(Half, Half, Zero), Vec(0, 0, 1)), Ray(V3(Half, Half, I(5)), Vec(0, 0, -1))}

InitHand ==
    /\ tree \in HandTrees
    /\ faces = <<>> /\ spare = empty /\ edits = 0
    /\ ray = None /\ pc = "idle" /\ heap = <<>> /\ min_t = PInf /\ result = None /\ popped = <<>>
    /\ calls = <<>> /\ arg = None /\ ret = None

NextHand ==
    \/ \E r \in HandRays : Hits(r)
    \/ Loop
    \/ Return

SpecHand == InitHand /\ [][NextHand]_vars

\* the entry the step pops
Top_popped == popped'[Len(popped')]

\* the entries pushed in a step from queue h to queue hNew, which pops one
\* entry and appends the rest behind those it keeps
Added(h, hNew) == SubSeq(hNew, Len(h), Len(hNew))

\* the hit of a child that is a leaf
LeafHit(c, r) == IF c.kind = "Child" THEN Face_hits(c.face, r) ELSE None

\* an iteration that pops e: e is of least cost and leaves the queue; past
\* the best distance the loop ends with its locals as they are, otherwise
\* only the children of e are queued or tested
MinFirst(e) ==
    /\ \A j \in 1..Len(heap) : FLe(e.cost, heap[j].cost)
    /\ \E i \in 1..Len(heap) : heap[i] = e /\ SubSeq(heap', 1, Len(heap) - 1) = Remove(heap, i)
    /\ FGt(e.cost, min_t) =>
        /\ pc' = "done" /\ result' = result /\ min_t' = min_t
        /\ Added(heap, heap') = <<>>
    /\ ~FGt(e.cost, min_t) =>
        /\ pc' = "loop"
        /\ e.data.kind = "Node"
        /\ Len(Added(heap, heap')) <= 2
        /\ \A i \in 1..Len(Added(heap, heap')) :
            Added(heap, heap')[i].data \in {e.data.left, e.data.right}
        /\ result' \in {result, LeafHit(e.data.left, ray), LeafHit(e.data.right, ray)}
        /\ \A c \in {e.data.left, e.data.right} :
            LeafHit(c, ray) # None => ~FLt(LeafHit(c, ray)[1].distance, min_t')

\* C19: in every iteration of collide's loop the popped entry costs no more
\* than any entry pending; if it costs more than the best distance the
\* traversal ends with the best hit and expands nothing, otherwise it
\* expands exactly the popped Node's two children
MinFirstEarlyExit == [][(pc = "loop" /\ heap # <<>>) => MinFirst(Top_popped)]_vars

\* the loop has ended on a popped entry past the best distance, after an
\* expansion that found the hit
EarlyExitTaken ==
    /\ pc = "done" /\ result # None
    /\ Len(popped) >= 2
    /\ FGt(popped[Len(popped)].cost, min_t)

\* C20: whatever tree is traversed, built by new or put together by hand
\* with Empty and Child children, every queue entry is a Node and neither
\* abort is reached
NodesOnly ==
    /\ pc # "panic"
    /\ \A i \in 1..Len(heap) : heap[i].data.kind = "Node"
    /\ \A i \in 1..Len(popped) : popped[i].data.kind = "Node"

\* a tree with a Node over Empty next to a leaf has been traversed to a hit
HandTreeTraversed ==
    /\ pc = "done" /\ result # None /\ Len(popped) = 2
    /\ tree.kind = "Node" /\ tree.left.kind = "Node" /\ tree.right.kind = "Child"
    /\ tree.left.right.kind = "Empty"

----------------------------------------------------------------------------
(* C21: the distance collide_box returns is a Cost the queue can order *)

\* a slab value of the call is NaN: 0 * inf, the origin on a bounding plane
\* of an axis the ray does not move along
SlabNaN == \E axis \in 0..2 : IsNaN(SlabOf(axis)[1]) \/ IsNaN(SlabOf(axis)[2])

\* C21: for a Node with finite bounds and a ray with finite origin and
\* direction, zero components and origins on a bounding plane included,
\* collide_box never returns NaN: +inf on a miss, a finite distance >= 0 on a
\* hit
BoxDistanceOrdered ==
    ret # None =>
        /\ ~IsNaN(ret[1][2])
        /\ ret[1][1] => IsFinite(ret[1][2]) /\ FGe(ret[1][2], Zero)
        /\ ~ret[1][1] => ret[1][2] = PInf

\* a hit was returned although a slab value was NaN
HitWithNaNSlab == ret # None /\ SlabNaN /\ ret[1][1] /\ IsFinite(ret[1][2])

----------------------------------------------------------------------------
(* C22: hits from behind are returned and tagged *)

\* the corners of f go round its stored normal counter-clockwise
Wound(f) == FGt(Dot(Cross(VSub(f.b, f.a), VSub(f.c, f.a)), f.face_normal), Zero)

\* p is on the inner side of the edge from u to v, or on it, whatever the
\* stored normal says
InnerSide(f, u, v, p) ==
    FGe(Dot(Cross(VSub(f.b, f.a), VSub(f.c, f.a)), Cross(VSub(v, u), VSub(p, u))), Zero)

InsideTriangle(f, p) == InnerSide(f, f.a, f.b, p) /\ InnerSide(f, f.b, f.c, p) /\ InnerSide(f, f.c, f.a, p)

\* the ray of the call meets the plane of the face at t >= 0 in the triangle
MeetsTriangle ==
    /\ FGe(PlaneT(arg.face, arg.ray), Zero)
    /\ InsideTriangle(arg.face, at(arg.ray, PlaneT(arg.face, arg.ray)))

RayNormDot == Dot(arg.ray.direction, arg.face.face_normal)

\* the tag of the claim: BackFace exactly when the dot product is > -1e-5
TagIs(c) == c.direction = IF FGt(RayNormDot, FNeg(epsilon)) THEN "BackFace" ELSE "FrontFace"

----------------------------------------------------------------------------
(* C23: rays parallel to the plane of the face *)

\* C23: a ray with dot(ray.direction, face_normal) = 0 gets None from
\* Face.hits, and no Collision returned by Face.hits has a distance that is
\* not finite
ParallelExcluded ==
    ret # None =>
        /\ IsZero(RayNormDot) => ret[1] = None
        /\ ret[1] # None => IsFinite(ret[1][1].distance)

----------------------------------------------------------------------------
(* C24: the normal of a Collision *)

\* the three vertex normals of f are its face normal
UniformNormals(f) ==
    f.a_normal = f.face_normal /\ f.b_normal = f.face_normal /\ f.c_normal = f.face_normal

\* C24: a Collision on a face whose three vertex normals are the face normal
\* n carries the normal n, wherever the triangle is, for every ray that is
\* not parallel to its plane
UniformNormalReturned ==
    (ret # None /\ ret[1] # None /\ UniformNormals(arg.face) /\ ~IsZero(RayNormDot))
        => VEq(ret[1][1].normal, arg.face.face_normal)

----------------------------------------------------------------------------
(* C25: Empty is the identity of node *)

RECURSIVE NodesOf(_)
NodesOf(t) ==
    IF t.kind = "Node" THEN {t} \cup NodesOf(t.left) \cup NodesOf(t.right) ELSE {}

\* the box of n is the box of x
BoxOf(n, x) == n.min = min_extents(x) /\ n.max = max_extents(x)

\* C25: Empty and the empty Vec have min_extents (+inf, +inf, +inf) and
\* max_extents (-inf, -inf, -inf), and every Node made of Empty and a tree X,
\* on either side, has the min and max of X
EmptyIdentity ==
    /\ min_extents(empty) = V3(PInf, PInf, PInf)
    /\ max_extents(empty) = V3(NInf, NInf, NInf)
    /\ Vec_min_extents(<<>>) = V3(PInf, PInf, PInf)
    /\ Vec_max_extents(<<>>) = V3(NInf, NInf, NInf)
    /\ \A n \in NodesOf(tree) :
        /\ n.left.kind = "Empty" => BoxOf(n, n.right)
        /\ n.right.kind = "Empty" => BoxOf(n, n.left)

\* the tree holds a Node with Empty on the left of a tree with faces and a
\* Node with Empty on the right of one
EmptyOnEitherSide ==
    \E n, m \in NodesOf(tree) :
        /\ n.left.kind = "Empty" /\ FacesOf(n.right) # {}
        /\ m.right.kind = "Empty" /\ FacesOf(m.left) # {}

----------------------------------------------------------------------------
(* C26: process_line on a face line *)

\* the most vertex references on a face line
MaxRefs == 4

\* vertex references: plain, with a normal, with a texture, counting back
RefPool == {<<"1">>, <<"2", "/", "/", "1">>, <<"3", "/", "1">>, <<"-", "1">>}
FaceLines == {<< <<"f">> >> \o refs : refs \in Lists(RefPool, MaxRefs)}

\* the lists before the call: empty, or as three vertex lines and a face
\* line leave them
NoLists == [vertices |-> <<>>, normals |-> <<>>, textures |-> <<>>, faces |-> <<>>]
SomeLists == ReadLines(<<VLine0, VLine2, VLine0, FGood>>, 1, Ok(NoLists)).value

InitLine == Start /\ arg \in {[line |-> l, st |-> st] : l \in FaceLines, st \in {NoLists, SomeLists}} /\ ret = None

CallLine ==
    /\ ret = None
    /\ ret' = <<process_line(arg.line, arg.st)>>
    /\ UNCHANGED <<treeVars, travVars, arg>>

SpecLine == InitLine /\ [][CallLine]_vars

\* the j-th vertex reference of the line as indexes into the lists
RefOf(j) ==
    to_positive_triple(to_triple(arg.line[j + 1]).value,
                       Len(arg.st.vertices), Len(arg.st.textures), Len(arg.st.normals))

\* C26: process_line on an f line with k >= 3 vertex references appends
\* exactly k - 2 faces, the i-th on the references 1, i + 1 and i + 2, and
\* leaves the vertices, normals and textures as they were; with fewer than 3
\* references it returns Err(NotEnoughVerticesInFace(k))
FanTriangulation ==
    ret # None =>
        IF Len(arg.line) - 1 >= 3
        THEN /\ ret[1].kind = "Ok"
             /\ ret[1].value.vertices = arg.st.vertices
             /\ ret[1].value.normals = arg.st.normals
             /\ ret[1].value.textures = arg.st.textures
             /\ Len(ret[1].value.faces) = Len(arg.st.faces) + Len(arg.line) - 3
             /\ SubSeq(ret[1].value.faces, 1, Len(arg.st.faces)) = arg.st.faces
             /\ \A i \in 1..Len(arg.line) - 3 :
                    ret[1].value.faces[Len(arg.st.faces) + i] = ObjFace(RefOf(1), RefOf(i + 1), RefOf(i + 2))
        ELSE ret[1] = Err(<<"NotEnoughVerticesInFace", Len(arg.line) - 1>>)

\* a line of four different references has been added to lists that held a
\* face already
QuadSplit ==
    /\ ret # None /\ ret[1].kind = "Ok"
    /\ Len(arg.line) = 5
    /\ Cardinality({RefOf(j) : j \in 1..4}) = 4
    /\ arg.st.faces # <<>>
    /\ Len(ret[1].value.faces) = Len(arg.st.faces) + 2

----------------------------------------------------------------------------
(* C27: read_header_ascii, src/stl-loader/src/ascii/mod.rs *)

IsWhite(ch) == ch \in {" ", "\t"}

\* str::split_whitespace: the runs of characters that are not white space
RECURSIVE WordsFrom(_, _, _)
WordsFrom(s, part, acc) ==
    IF s = <<>> THEN (IF part = <<>> THEN acc ELSE Append(acc, part))
    ELSE IF IsWhite(Head(s)) THEN WordsFrom(Tail(s), <<>>, IF part = <<>> THEN acc ELSE Append(acc, part))
    ELSE WordsFrom(Tail(s), Append(part, Head(s)), acc)

split_whitespace(s) == WordsFrom(s, <<>>, <<>>)

Solid == <<"s", "o", "l", "i", "d">>

\* read_header_ascii that takes whatever follows the name
HeaderOf_lenient(iter) ==
    IF next(iter, 1) # Some(Solid) THEN Err("MissingHeader")
    ELSE IF next(iter, 2) # None THEN Ok(Some(iter[2]))
    ELSE Ok(None)

\* read_header_ascii on the words of the first line
HeaderOf(iter) ==
    IF next(iter, 1) # Some(Solid) THEN Err("MissingHeader")
    ELSE IF next(iter, 3) # None THEN Err("TooMuchInHeader")
    ELSE IF next(iter, 2) # None THEN Ok(Some(iter[2]))
    ELSE Ok(None)

\* read_header_ascii on the lines the scanner has left
read_header_ascii(scan) ==
    IF scan = <<>> THEN Err("MissingHeader") ELSE HeaderOf(split_whitespace(Head(scan)))

\* the most words on the first line
MaxWords == 3

WordPool == {Solid, <<"d", "o", "g">>, <<"f", "i", "s", "h">>}

\* words joined by sep, after lead and before trail
RECURSIVE Joined(_, _)
Joined(words, sep) ==
    IF words = <<>> THEN <<>>
    ELSE IF Len(words) = 1 THEN words[1]
    ELSE words[1] \o sep \o Joined(Tail(words), sep)

HeaderLine(h) == h.lead \o Joined(h.words, h.sep) \o h.trail

\* a later line, which would be one word too long as a header
LaterLine == Joined(<<Solid, <<"d", "o", "g">>, <<"b", "o", "w", "l">> >>, <<" ">>)

\* the input of the call: no line, the header line, or the header line and
\* a later line
StlText(h) == SubSeq(<<HeaderLine(h), LaterLine>>, 1, h.lines)

HeaderArgs ==
    {[words |-> w, lead |-> l, sep |-> s, trail |-> t, lines |-> n] :
        w \in Lists(WordPool, MaxWords), l \in {<<>>, <<"\t">>}, s \in {<<" ">>, <<"\t", " ">>},
        t \in {<<>>, <<" ">>}, n \in 0..2}

InitHeader == Start /\ arg \in HeaderArgs /\ ret = None

CallHeader ==
    /\ ret = None
    /\ ret' = <<read_header_ascii(StlText(arg))>>
    /\ UNCHANGED <<treeVars, travVars, arg>>

SpecHeader == InitHeader /\ [][CallHeader]_vars

\* C27: read_header_ascii returns Err(MissingHeader) when the input is
\* empty or the first word of the first line is not "solid" (or is missing),
\* and otherwise Ok(None) for "solid" alone, Ok(Some(name)) for "solid"
\* and exactly one more word, Err(TooMuchInHeader) for a third word,
\* whatever the later lines are
HeaderCases ==
    ret # None =>
        ret[1] =
            IF arg.lines = 0 \/ arg.words = <<>> THEN Err("MissingHeader")
            ELSE IF arg.words[1] # Solid THEN Err("MissingHeader")
            ELSE IF Len(arg.words) = 1 THEN Ok(None)
            ELSE IF Len(arg.words) = 2 THEN Ok(Some(arg.words[2]))
            ELSE Err("TooMuchInHeader")

\* a name has been read from a first line with tabs, with a later line in
\* the input
NameRead ==
    /\ ret # None /\ ret[1].kind = "Ok" /\ ret[1].value # None
    /\ arg.lines = 2 /\ arg.lead # <<>> /\ arg.sep = <<"\t", " ">> /\ arg.trail # <<>>

----------------------------------------------------------------------------
(* C28: the order of the costs popped *)

\* C28: in one traversal of a tree whose boxes hold their children's boxes
\* the costs of the entries popped never decrease, a child Node being
\* entered no sooner than its parent
PoppedNonDecreasing ==
    \A i \in 1..Len(popped) : \A j \in i..Len(popped) : FLe(popped[i].cost, popped[j].cost)

----------------------------------------------------------------------------
(* C29: new keeps the primitives *)

\* the primitives in the Child leaves of t, from left to right
RECURSIVE LeavesOf(_)
LeavesOf(t) ==
    CASE t.kind = "Empty" -> <<>>
      [] t.kind = "Child" -> <<t.face>>
      [] t.kind = "Node" -> LeavesOf(t.left) \o LeavesOf(t.right)

\* how often x is in the sequence s
Count(x, s) == Cardinality({i \in 1..Len(s) : s[i] = x})

\* C29: the primitives in the Child leaves of new(L) are those of L, each as
\* often as in L and as it was given, and no Node of new(L) has an Empty
\* child
BuildPreserves ==
    /\ Len(LeavesOf(tree)) = Len(faces)
    /\ \A i \in 1..Len(faces) : Count(faces[i], LeavesOf(tree)) = Count(faces[i], faces)
    /\ \A n \in NodesOf(tree) : n.left.kind # "Empty" /\ n.right.kind # "Empty"

\* a tree has been built of four or more primitives, one of them given twice
RepeatedPrimitiveBuilt ==
    /\ Len(faces) >= 4
    /\ \E i \in 1..Len(faces) : Count(faces[i], faces) = 2
    /\ Len(LeavesOf(tree)) = Len(faces)

----------------------------------------------------------------------------
(* C30: the winding and the stored normal *)

\* the stored normal of f points against its winding
Turned(f) == FLt(Dot(Cross(VSub(f.b, f.a), VSub(f.c, f.a)), f.face_normal), Zero)

\* p is strictly on the inner side of the edge from u to v
StrictlyInner(f, u, v, p) ==
    FGt(Dot(Cross(VSub(f.b, f.a), VSub(f.c, f.a)), Cross(VSub(v, u), VSub(p, u))), Zero)

StrictlyInside(f, p) ==
    StrictlyInner(f, f.a, f.b, p) /\ StrictlyInner(f, f.b, f.c, p) /\ StrictlyInner(f, f.c, f.a, p)

\* the point in which the ray of the call meets the plane of the face
PlanePoint == at(arg.ray, PlaneT(arg.face, arg.ray))

============================================================================
